---------------------------- MODULE Spec2Model ----------------------------
(***************************************************************************)
(* A verification model of SteveLauC/fs, a file-system access layer that   *)
(* talks to the Linux kernel through raw system calls.                     *)
(*                                                                         *)
(* The module holds fourteen state machines over one list of variables;    *)
(* each specification drives its own variables and leaves the others at    *)
(* their idle values:                                                      *)
(*   SpecSyscall   the return-value convention of the syscall gateway      *)
(*   SpecFile      ownership of kernel descriptors by File objects         *)
(*   SpecDir       the directory stream (Dir::readdir)                     *)
(*   SpecRealpath  realpath, one action per group of kernel calls, with a  *)
(*                 concurrent actor that may remove a symbolic link        *)
(*   SpecChdir     realpath while another thread changes the working       *)
(*                 directory                                               *)
(*   SpecCanon     realpath as a function of (file system, cwd, path)      *)
(*   SpecOpen      the OpenOptions builder and OpenOptions::open           *)
(*   SpecDev       packing and unpacking of device ids                     *)
(*   SpecPrim      the gateway primitives, raw bindings and wrappers       *)
(*   SpecRW        creat, open, read, write and lseek64 on one file        *)
(*   SpecPos       pread and pwrite on one file                            *)
(*   SpecMeta      the timestamps of a file: created, set_times,           *)
(*                 set_modified                                            *)
(*   SpecMkdir     create_dir_all beside a concurrent actor                *)
(*   SpecType      the type tag of a directory record and what             *)
(*                 remove_dir_all does with the entry                      *)
(***************************************************************************)
EXTENDS Integers, Sequences, FiniteSets, TLC

VARIABLES
    (* syscall gateway *)
    ret_val,      \* the raw machine word the kernel returned (a usize)
    sc_result,    \* what syscall_result made of it: <<>> before the call, <<result>> after
    (* File / OwnedFd *)
    fdtable,      \* the process's descriptor table: number -> open instance (0 = closed)
    objs,         \* the values the program holds: File, OwnedFd or a raw number
    nextInst,     \* the next descriptor instance the kernel hands out
    closes,       \* instance -> how many times its owners called close on it
    (* Dir *)
    kdir,         \* the directory as the kernel enumerates it (names, in kernel order)
    kpos,         \* the kernel's position in that enumeration (file offset of the descriptor)
    kremoved,     \* the directory was removed (rmdir) by another actor
    entries,      \* Dir.entries: parsed and not yet returned
    cursorEnd,    \* the value of cursor when the last drain stopped
    numRead,      \* the byte count of the last fill
    returned,     \* the names readdir has handed out so far
    lastRet,      \* the outcome of the last readdir call
    eofSeen,      \* a fill returned zero bytes and readdir returned None
    dirModified,  \* the directory was modified after opendir
    fillFailed,   \* some fill has failed
    (* realpath *)
    fs,           \* the file system: location -> node
    cwd,          \* the process's working directory
    cwd0,         \* the working directory the top-level realpath call read at entry
    path,         \* the argument of the top-level realpath call
    stack,        \* the activation records of realpath, innermost last
    outcome,      \* what the top-level call produced
    fsModified,   \* another actor changed the file system during the call
    (* OpenOptions *)
    oo,           \* the OpenOptions value the caller builds
    oo_result,    \* what OpenOptions::open returned
    kflags,       \* the flag words handed to the open primitive, one per invocation
    kfile,        \* the file at the path: "absent", "empty" or "data"
    (* device ids *)
    dv_major,     \* the major number handed to makedev (a set of bit positions)
    dv_minor,     \* the minor number handed to makedev
    dv_dev,       \* the packed device id makedev returned: <<>> before, <<dev>> after
    dv_dec,       \* what major and minor read from it: <<>> before, <<major, minor>> after
    (* gateway primitives *)
    pcall,        \* the primitive call made last: <<>> before the first, <<call>> after
    kwords,       \* the words the kernel returned to that call, one per invocation
    pres,         \* what the call returned: <<>> before the first, <<result>> after
    (* reading and writing a file *)
    rw_file,      \* the file at the path: <<>> while absent, <<bytes>> once it exists
    rw_fds,       \* the open descriptors on it: access mode, append flag and offset
    rw_mods,      \* the first change of the content since creation, and whether more came
    rw_last,      \* the last call: primitive, descriptor, count, result and buffer
    rw_n,         \* how many calls were made
    (* file times *)
    ktimes,       \* the timestamps the kernel keeps for the file: atime, btime, ctime, mtime
    mt_last,      \* the last call on the file times and what it returned
    (* create_dir_all *)
    mk_made,      \* the directories the create_dir_all call has created, in order
    mk_env,       \* directories created by the concurrent actor during the call
    (* directory entry types *)
    ft_entry,     \* the directory record at hand: its d_type byte and what the name really is
    ft_last       \* the FileType decoded from the record and what remove_dir_all did with the entry

vars == <<ret_val, sc_result, fdtable, objs, nextInst, closes,
          kdir, kpos, kremoved, entries, cursorEnd, numRead, returned, lastRet,
          eofSeen, dirModified, fillFailed,
          fs, cwd, cwd0, path, stack, outcome, fsModified,
          oo, oo_result, kflags, kfile,
          dv_major, dv_minor, dv_dev, dv_dec,
          pcall, kwords, pres,
          rw_file, rw_fds, rw_mods, rw_last, rw_n,
          ktimes, mt_last,
          mk_made, mk_env,
          ft_entry, ft_last>>

syscallVars == <<ret_val, sc_result>>
fileVars == <<fdtable, objs, nextInst, closes>>
dirVars == <<kdir, kpos, kremoved, entries, cursorEnd, numRead, returned, lastRet,
             eofSeen, dirModified, fillFailed>>
pathVars == <<fs, cwd, cwd0, path, stack, outcome, fsModified>>
openVars == <<oo, oo_result, kflags, kfile>>
devVars == <<dv_major, dv_minor, dv_dev, dv_dec>>
primVars == <<pcall, kwords, pres>>
rwVars == <<rw_file, rw_fds, rw_mods, rw_last, rw_n>>
metaVars == <<ktimes, mt_last>>
mkVars == <<mk_made, mk_env>>
typeVars == <<ft_entry, ft_last>>

\* What the actions of one machine leave alone: the other machines.
notSyscall == <<fileVars, dirVars, pathVars, openVars, devVars, primVars, rwVars, metaVars, mkVars, typeVars>>
notFile == <<syscallVars, dirVars, pathVars, openVars, devVars, primVars, rwVars, metaVars, mkVars, typeVars>>
notDir == <<syscallVars, fileVars, pathVars, openVars, devVars, primVars, rwVars, metaVars, mkVars, typeVars>>
notPath == <<syscallVars, fileVars, dirVars, openVars, devVars, primVars, rwVars, metaVars, mkVars, typeVars>>
notOpen == <<syscallVars, fileVars, dirVars, pathVars, devVars, primVars, rwVars, metaVars, mkVars, typeVars>>
notDev == <<syscallVars, fileVars, dirVars, pathVars, openVars, primVars, rwVars, metaVars, mkVars, typeVars>>
notPrim == <<syscallVars, fileVars, dirVars, pathVars, openVars, devVars, rwVars, metaVars, mkVars, typeVars>>
notRw == <<syscallVars, fileVars, dirVars, pathVars, openVars, devVars, primVars, metaVars, mkVars, typeVars>>
notMeta == <<syscallVars, fileVars, dirVars, pathVars, openVars, devVars, primVars, rwVars, mkVars, typeVars>>
notMk == <<syscallVars, fileVars, dirVars, openVars, devVars, primVars, rwVars, metaVars, typeVars>>
notType == <<syscallVars, fileVars, dirVars, pathVars, openVars, devVars, primVars, rwVars, metaVars, mkVars>>

None == "none"

(***************************************************************************)
(* Bounds of the model.                                                    *)
(***************************************************************************)
\* The machine word is modelled with WordBits bits (the target's usize has 64).
WordBits == 16
\* How far around each boundary of the word the raw return values are drawn.
Slack == 6
\* Values the program holds at once (File, OwnedFd, raw numbers).
MaxObjs == 3
\* Free slots of the descriptor table above stdin, stdout and stderr.
MaxFds == 3
\* Descriptors the kernel hands out in one run.
MaxOpens == 4
\* Calls made on the file in one run.
MaxRwOps == 4
\* Length of the buffers handed to read and write.
MaxBuf == 2
\* Length of the file.
MaxFileLen == 3
\* Descriptors open on the file.
MaxRwFds == 2
\* Positioned calls (pread, pwrite) made on the file in one run.
MaxPosOps == 1
\* Largest number of seconds in a timestamp.
MaxSec == 2
\* Longest argument of create_dir_all, in segments.
MaxMkLen == 3
\* Directories the concurrent actor creates during one create_dir_all call.
MaxEnvOps == 1

(***************************************************************************)
(* 1. The syscall gateway: libc_like_syscall.rs                            *)
(***************************************************************************)
\* Largest error number of the kernel's return convention.
MAX_ERRNO == 4095

Pow2(n) == 2 ^ n

WordMod == Pow2(WordBits)

\* `ret_val as isize`: the two's-complement reading of the word.
AsIsize(u) == IF u >= Pow2(WordBits - 1) THEN u - WordMod ELSE u

OkVal(v) == [ok |-> TRUE, val |-> v]
ErrVal(e) == [ok |-> FALSE, val |-> e]

\* A mutation of syscall_result: the range check taken as -4096..=-1.
syscall_result_wide(r) ==
    LET minus_errno == AsIsize(r)
    IN  IF minus_errno >= -(MAX_ERRNO + 1) /\ minus_errno <= -1
        THEN ErrVal(-minus_errno)
        ELSE OkVal(minus_errno)

syscall_result(r) ==
    LET minus_errno == AsIsize(r)
    IN  IF minus_errno >= -MAX_ERRNO /\ minus_errno <= -1
        THEN ErrVal(-minus_errno)
        ELSE OkVal(minus_errno)

\* The raw words the kernel is taken to return: around 0, around the sign
\* change and the whole band of negated error numbers with its two edges.
RawWords ==
    (0 .. Slack)
    \cup ((Pow2(WordBits - 1) - Slack) .. (Pow2(WordBits - 1) + Slack))
    \cup ((WordMod - MAX_ERRNO - Slack) .. (WordMod - 1))

\* One kernel invocation has returned the word ret_val; syscall_result decodes it.
SyscallReturn ==
    /\ sc_result = <<>>
    /\ sc_result' = <<syscall_result(ret_val)>>
    /\ UNCHANGED <<ret_val, notSyscall>>

(***************************************************************************)
(* 2. File and the descriptors it owns: file.rs                            *)
(***************************************************************************)
ObjIds == 1 .. MaxObjs
FdNums == 3 .. (2 + MaxFds)
Insts == 1 .. MaxOpens

FreeObj == [kind |-> "free", fd |-> 0, inst |-> 0]

FreeFds == {n \in FdNums : fdtable[n] = 0}

\* The kernel hands out the lowest free descriptor number.
LowestFree == CHOOSE n \in FreeFds : \A m \in FreeFds : n <= m

\* close(fd) as the kernel performs it: the slot becomes free (EBADF leaves it).
KClose(tab, n) == [tab EXCEPT ![n] = 0]

\* The owner of instance i calls close: counted against the instance (0, 1, or
\* 2 for "more than once").
CountClose(cl, i) == [cl EXCEPT ![i] = IF @ < 2 THEN @ + 1 ELSE @]

\* File::open / File::create: OpenOptions::open wraps the new descriptor.
FileOpen(o) ==
    /\ objs[o].kind = "free"
    /\ FreeFds # {}
    /\ nextInst <= MaxOpens
    /\ fdtable' = [fdtable EXCEPT ![LowestFree] = nextInst]
    /\ objs' = [objs EXCEPT ![o] = [kind |-> "File", fd |-> LowestFree, inst |-> nextInst]]
    /\ nextInst' = nextInst + 1
    /\ UNCHANGED closes
    /\ UNCHANGED notFile

\* File::try_clone: OwnedFd::try_clone duplicates the descriptor (F_DUPFD_CLOEXEC);
\* on a closed descriptor the kernel answers EBADF and nothing changes.
FileTryClone(o, o2) ==
    /\ objs[o].kind = "File"
    /\ objs[o2].kind = "free"
    /\ fdtable[objs[o].fd] # 0
    /\ FreeFds # {}
    /\ nextInst <= MaxOpens
    /\ fdtable' = [fdtable EXCEPT ![LowestFree] = nextInst]
    /\ objs' = [objs EXCEPT ![o2] = [kind |-> "File", fd |-> LowestFree, inst |-> nextInst]]
    /\ nextInst' = nextInst + 1
    /\ UNCHANGED closes
    /\ UNCHANGED notFile

\* From<File> for OwnedFd: the descriptor moves out of the File.
FileIntoOwnedFd(o) ==
    /\ objs[o].kind = "File"
    /\ objs' = [objs EXCEPT ![o].kind = "OwnedFd"]
    /\ UNCHANGED <<fdtable, nextInst, closes>>
    /\ UNCHANGED notFile

\* From<OwnedFd> for File: the descriptor moves into the File.
FileFromOwnedFd(o) ==
    /\ objs[o].kind = "OwnedFd"
    /\ objs' = [objs EXCEPT ![o].kind = "File"]
    /\ UNCHANGED <<fdtable, nextInst, closes>>
    /\ UNCHANGED notFile

\* IntoRawFd for File: `self.fd.as_raw_fd()` reads the number, and `self`, taken
\* by value, is dropped when the function returns: its OwnedFd closes the descriptor.
FileIntoRawFd(o) ==
    /\ objs[o].kind = "File"
    /\ objs' = [objs EXCEPT ![o].kind = "Raw"]
    /\ fdtable' = KClose(fdtable, objs[o].fd)
    /\ closes' = CountClose(closes, objs[o].inst)
    /\ UNCHANGED nextInst
    /\ UNCHANGED notFile

\* FromRawFd for File: wraps a number the caller holds.
FileFromRawFd(o) ==
    /\ objs[o].kind = "Raw"
    /\ objs' = [objs EXCEPT ![o].kind = "File"]
    /\ UNCHANGED <<fdtable, nextInst, closes>>
    /\ UNCHANGED notFile

\* Drop of a File or of an OwnedFd: close(fd), errors ignored.
FileDrop(o) ==
    /\ objs[o].kind \in {"File", "OwnedFd"}
    /\ objs' = [objs EXCEPT ![o] = FreeObj]
    /\ fdtable' = KClose(fdtable, objs[o].fd)
    /\ closes' = CountClose(closes, objs[o].inst)
    /\ UNCHANGED nextInst
    /\ UNCHANGED notFile

(***************************************************************************)
(* 3. The directory stream: backend/encapsulation.rs, dir.rs               *)
(***************************************************************************)
\* Names a modelled directory may hold besides "." and "..".
MaxDirNames == 3

\* Offset of d_name in struct linux_dirent64.
OFFSET_D_NAME == 19
\* Size of Dir.buf, the scratch buffer handed to getdents64.
BUF_SIZE == 1024

NamePool == <<"a", "bb", "ccc", "dddd", "eeeee", "ffffff">>
DirNames == {NamePool[i] : i \in 1 .. MaxDirNames}
DotNames == {".", ".."}

SeqRange(s) == {s[i] : i \in 1 .. Len(s)}

\* The record the kernel writes for a name: d_reclen is the header, the name and
\* its NUL, rounded up to 8 bytes.
KRecord(name) ==
    [name |-> name, d_reclen |-> ((OFFSET_D_NAME + Len(name) + 1 + 7) \div 8) * 8]

RECURSIVE SumReclen(_)
SumReclen(recs) ==
    IF recs = <<>> THEN 0 ELSE Head(recs).d_reclen + SumReclen(Tail(recs))

\* The byte offset in the buffer at which record i of a fill starts.
StartOf(recs, i) == SumReclen(SubSeq(recs, 1, i - 1))

\* The record read through the pointer buf + cursor.
RecordAt(recs, cursor) ==
    recs[CHOOSE i \in 1 .. Len(recs) : StartOf(recs, i) = cursor]

\* The fills getdents64 may answer at position pos: zero records at the end of
\* the directory, otherwise any positive number of the following records that
\* fit the buffer.
FillCounts(dir, pos) ==
    IF pos = Len(dir) THEN {0}
    ELSE {k \in 1 .. (Len(dir) - pos) :
            SumReclen([i \in 1 .. k |-> KRecord(dir[pos + i])]) <= BUF_SIZE}

\* Dirent::new, reduced to the name it copies out of the record.
DirentNew(rec) == [name |-> rec.name]

\* A mutation of SkipName: only "." is filtered.
SkipNameDotOnly(name) == name = "."

\* `entry.name != "." && entry.name != ".."`, negated.
SkipName(name) == name = "." \/ name = ".."

\* The while loop of readdir over one fill: parse the record at cursor, enqueue
\* it unless filtered, advance cursor by the record's d_reclen.
RECURSIVE Drain(_, _, _, _)
Drain(recs, cursor, num_read, queue) ==
    IF cursor < num_read
    THEN LET rec == RecordAt(recs, cursor)
             entry == DirentNew(rec)
         IN  Drain(recs, cursor + rec.d_reclen, num_read,
                   IF SkipName(entry.name) THEN queue ELSE Append(queue, entry))
    ELSE [queue |-> queue, cursor |-> cursor]

\* The orders in which the kernel may enumerate the names of a directory.
Orders(S) ==
    {s \in [1 .. Cardinality(S) -> S] : \A i, j \in DOMAIN s : i # j => s[i] # s[j]}

\* The tail of readdir: pop the front of the queue, or None.
PopFront(queue) ==
    /\ entries' = IF queue = <<>> THEN <<>> ELSE Tail(queue)
    /\ lastRet' = IF queue = <<>> THEN None ELSE Head(queue).name
    /\ returned' = IF queue = <<>> THEN returned ELSE Append(returned, Head(queue).name)

\* readdir with a non-empty queue: no fill.
ReaddirQueued ==
    /\ entries # <<>>
    /\ PopFront(entries)
    /\ UNCHANGED <<kdir, kpos, kremoved, cursorEnd, numRead, eofSeen, dirModified,
                   fillFailed>>
    /\ UNCHANGED notDir

\* readdir with an empty queue: one fill of k records, drained, then the pop.
ReaddirFill ==
    /\ entries = <<>>
    /\ ~kremoved
    /\ \E k \in FillCounts(kdir, kpos) :
         LET recs == [i \in 1 .. k |-> KRecord(kdir[kpos + i])]
             num_read == SumReclen(recs)
             d == Drain(recs, 0, num_read, entries)
         IN  /\ kpos' = kpos + k
             /\ numRead' = num_read
             /\ IF num_read = 0
                THEN /\ lastRet' = None
                     /\ eofSeen' = TRUE
                     /\ UNCHANGED <<entries, returned, cursorEnd>>
                ELSE /\ cursorEnd' = d.cursor
                     /\ PopFront(d.queue)
                     /\ UNCHANGED eofSeen
    /\ UNCHANGED <<kdir, kremoved, dirModified, fillFailed>>
    /\ UNCHANGED notDir

\* readdir with an empty queue on a removed directory: getdents64 fails with
\* ENOENT, which readdir returns as Some(Err(e)).
ReaddirFillErr ==
    /\ entries = <<>>
    /\ kremoved
    /\ lastRet' = "err"
    /\ fillFailed' = TRUE
    /\ UNCHANGED <<kdir, kpos, kremoved, entries, cursorEnd, numRead, returned,
                   eofSeen, dirModified>>
    /\ UNCHANGED notDir

\* Another actor creates a name in the directory; a later fill may report it.
EnvCreate ==
    /\ ~dirModified
    /\ ~kremoved
    /\ \E n \in DirNames \ SeqRange(kdir) : kdir' = Append(kdir, n)
    /\ dirModified' = TRUE
    /\ UNCHANGED <<kpos, kremoved, entries, cursorEnd, numRead, returned, lastRet,
                   eofSeen, fillFailed>>
    /\ UNCHANGED notDir

\* Another actor removes the (empty) directory while the stream is open.
EnvRmdir ==
    /\ ~kremoved
    /\ SeqRange(kdir) \subseteq DotNames
    /\ kremoved' = TRUE
    /\ dirModified' = TRUE
    /\ UNCHANGED <<kdir, kpos, entries, cursorEnd, numRead, returned, lastRet,
                   eofSeen, fillFailed>>
    /\ UNCHANGED notDir

(***************************************************************************)
(* 4. realpath: backend/realpath.rs                                        *)
(***************************************************************************)
\* Longest argument path, in segments.
MaxPathLen == 3
\* Deepest nesting of realpath activations the model follows (the call stack).
MaxStack == 4

\* Symbolic links the kernel follows in one path walk before it answers ELOOP
\* (Linux: 40).  In the file systems modelled here a walk that is not caught in
\* a cycle of links follows at most two links for each segment of its path.
MaxFollows == 8

\* A path is its leading-slash flag and its segments, "." and ".." included.
Root == [abs |-> TRUE, segs |-> <<>>]
MkPath(a, s) == [abs |-> a, segs |-> s]

Names == {"a", "b"}
Segments == Names \cup {".", ".."}

RECURSIVE SeqsUpTo(_, _)
SeqsUpTo(S, n) ==
    IF n = 0 THEN {<<>>}
    ELSE LET shorter == SeqsUpTo(S, n - 1)
         IN  shorter \cup {Append(s, x) : s \in {t \in shorter : Len(t) = n - 1}, x \in S}

ArgPaths == {MkPath(a, s) : a \in BOOLEAN, s \in SeqsUpTo(Segments, MaxPathLen)}

(*-------------------------- the file system ------------------------------*)
\* Locations that may hold a node; the root directory always exists.
Locs == {<<"a">>, <<"b">>, <<"a", "b">>}
LinkTargets == {MkPath(FALSE, <<"b">>), MkPath(FALSE, <<"..", "b">>), MkPath(TRUE, <<"a">>)}

NoNode == [kind |-> "none", target |-> Root]
DirNode == [kind |-> "dir", target |-> Root]
FileNode == [kind |-> "file", target |-> Root]
LinkNode(t) == [kind |-> "link", target |-> t]
Nodes == {NoNode, DirNode, FileNode} \cup {LinkNode(t) : t \in LinkTargets}

Front(s) == SubSeq(s, 1, Len(s) - 1)

NodeAt(f, loc) ==
    IF loc = <<>> THEN DirNode
    ELSE IF loc \in DOMAIN f THEN f[loc] ELSE NoNode

\* A node exists only inside a directory.
FileSystems ==
    {f \in [Locs -> Nodes] :
        \A loc \in Locs : f[loc].kind # "none" => NodeAt(f, Front(loc)).kind = "dir"}

\* The kernel's path walk from directory cur: "." stays, ".." goes up (the root
\* is its own parent), a name is looked up in a directory, a symbolic link that
\* is not last (or is followed) is replaced by its target, at most fuel times.
RECURSIVE KWalk(_, _, _, _, _)
KWalk(f, cur, comps, follow, fuel) ==
    IF comps = <<>> THEN [st |-> "ok", loc |-> cur]
    ELSE IF NodeAt(f, cur).kind # "dir" THEN [st |-> "ENOTDIR", loc |-> cur]
    ELSE IF Head(comps) = "." THEN KWalk(f, cur, Tail(comps), follow, fuel)
    ELSE IF Head(comps) = ".."
         THEN KWalk(f, IF cur = <<>> THEN cur ELSE Front(cur), Tail(comps), follow, fuel)
    ELSE LET child == Append(cur, Head(comps))
             n == NodeAt(f, child)
         IN  IF n.kind = "none" THEN [st |-> "ENOENT", loc |-> child]
             ELSE IF n.kind = "link" /\ (Tail(comps) # <<>> \/ follow)
                  THEN IF fuel = 0 THEN [st |-> "ELOOP", loc |-> child]
                       ELSE KWalk(f, IF n.target.abs THEN <<>> ELSE cur,
                                  n.target.segs \o Tail(comps), follow, fuel - 1)
             ELSE KWalk(f, child, Tail(comps), follow, fuel)

\* stat(2) and lstat(2) of a path, relative ones taken from directory wd; the
\* kernel gives up with ELOOP after MaxFollows symbolic links in one walk.
KStat(f, wd, p) == KWalk(f, IF p.abs THEN <<>> ELSE wd.segs, p.segs, TRUE, MaxFollows)
KLstat(f, wd, p) == KWalk(f, IF p.abs THEN <<>> ELSE wd.segs, p.segs, FALSE, MaxFollows)

(*------------------------ std::path, as used -----------------------------*)
\* Path::components: a root component first for an absolute path; "." is
\* dropped everywhere but at the start of a relative path.
Components(p) ==
    LET plain == SelectSeq(p.segs, LAMBDA x : x # ".")
    IN  IF p.abs THEN <<"/">> \o plain
        ELSE IF p.segs # <<>> /\ Head(p.segs) = "." THEN <<".">> \o plain
        ELSE plain

\* A mutation of TryExists: every failure of stat is taken as "does not exist".
TryExistsLax(f, wd, p) ==
    LET r == KStat(f, wd, p)
    IN  IF r.st = "ok" THEN [err |-> None, exists |-> TRUE]
        ELSE [err |-> None, exists |-> FALSE]

\* Path::try_exists: stat; Ok(true), Ok(false) on ENOENT, the error otherwise.
TryExists(f, wd, p) ==
    LET r == KStat(f, wd, p)
    IN  IF r.st = "ok" THEN [err |-> None, exists |-> TRUE]
        ELSE IF r.st = "ENOENT" THEN [err |-> None, exists |-> FALSE]
        ELSE [err |-> r.st, exists |-> FALSE]

\* A mutation of IsSymlink: the type is taken from stat, which follows links.
IsSymlinkFollowing(f, wd, p) ==
    LET r == KStat(f, wd, p)
    IN  r.st = "ok" /\ NodeAt(f, r.loc).kind = "link"

\* Path::is_symlink: lstat succeeded and the node is a symbolic link.
IsSymlink(f, wd, p) ==
    LET r == KLstat(f, wd, p)
    IN  r.st = "ok" /\ NodeAt(f, r.loc).kind = "link"

\* Path::read_link: the target, or the error of readlink(2).
ReadLink(f, wd, p) ==
    LET r == KLstat(f, wd, p)
    IN  IF r.st # "ok" THEN [err |-> r.st, target |-> Root]
        ELSE IF NodeAt(f, r.loc).kind # "link" THEN [err |-> "EINVAL", target |-> Root]
        ELSE [err |-> None, target |-> NodeAt(f, r.loc).target]

\* Path::parent of a path without "." segments: None (here: the path itself
\* flagged) for the root and for the empty path.
HasParent(p) == p.segs # <<>>
Parent(p) == MkPath(p.abs, Front(p.segs))

\* Path::join / PathBuf::push: an absolute argument replaces the path.
Join(p, q) == IF q.abs THEN q ELSE MkPath(p.abs, p.segs \o q.segs)

(*---------------------------- RealpathParser -----------------------------*)
is_dot(entry) == entry = "."
is_a_pair_of_dots(entry) == entry = ".."

\* RealpathParser::parsed_push_back: PathBuf::push of one component.
parsed_push_back(parsed, entry) ==
    IF entry = "/" THEN Root ELSE MkPath(parsed.abs, Append(parsed.segs, entry))

\* A mutation of parsed_cd_to_parent: the root case forgotten, the path emptied.
parsed_cd_to_parent_noroot(parsed) ==
    IF HasParent(parsed) THEN Parent(parsed) ELSE MkPath(FALSE, <<>>)

\* RealpathParser::parsed_cd_to_parent: the length of parsed is cut to that of
\* its parent; a path without parent (the root) is left alone.
parsed_cd_to_parent(parsed) ==
    IF HasParent(parsed) THEN Parent(parsed) ELSE parsed

\* RealpathParser::new as realpath calls it: parsed is "/" or the working
\* directory read at entry, remaining the components of the argument.
ParserNew(wd, p) ==
    [parsed |-> IF p.abs THEN Root ELSE wd, remaining |-> Components(p)]

\* Lines 100-106: what consuming one component makes of parsed.
Consumed(parsed, entry) ==
    IF is_dot(entry) THEN parsed
    ELSE IF is_a_pair_of_dots(entry) THEN parsed_cd_to_parent(parsed)
    ELSE parsed_push_back(parsed, entry)

\* A mutation of LinkArgument: the target joined to the link's own path.
LinkArgumentOnLink(parsed, link_content) == Join(parsed, link_content)

\* A mutation of LinkArgument: a relative target is handed on as it is.
LinkArgumentUnanchored(parsed, link_content) == link_content

\* Lines 110-117: the path handed to the recursive call; a relative target is
\* joined to the parent directory of the link.
LinkArgument(parsed, link_content) ==
    IF link_content.abs THEN link_content ELSE Join(Parent(parsed), link_content)

OkPath(p) == [tag |-> "Ok", path |-> p, kind |-> None]
ErrKind(k) == [tag |-> "Err", path |-> Root, kind |-> k]
Panicked == [tag |-> "Panic", path |-> Root, kind |-> None]
Overflow == [tag |-> "Overflow", path |-> Root, kind |-> None]
Running == [tag |-> "Running", path |-> Root, kind |-> None]
Idle == [tag |-> "Idle", path |-> Root, kind |-> None]

(*---------------------- realpath as a function ---------------------------*)
\* realpath on a file system nobody modifies: the loop of lines 94-121 and the
\* recursive call of line 119.  A nesting deeper than MaxStack is reported as
\* Overflow: the activation that would exceed the stack.
RECURSIVE RealpathFrom(_, _, _, _)
RECURSIVE RealpathLoop(_, _, _, _, _)
RealpathFrom(f, wd, p, depth) ==
    IF depth > MaxStack THEN Overflow
    ELSE RealpathLoop(f, wd, ParserNew(wd, p).parsed, ParserNew(wd, p).remaining, depth)

RealpathLoop(f, wd, parsed, remaining, depth) ==
    IF remaining = <<>> THEN OkPath(parsed)
    ELSE LET entry == Head(remaining)
             ex == TryExists(f, wd, parsed)
             next == Consumed(parsed, entry)
         IN  IF ex.err # None THEN ErrKind(ex.err)
             ELSE IF ~ex.exists THEN ErrKind("NotFound")
             ELSE IF ~is_dot(entry) /\ IsSymlink(f, wd, next)
                  THEN LET rl == ReadLink(f, wd, next)
                           r == RealpathFrom(f, wd, LinkArgument(next, rl.target), depth + 1)
                       IN  IF rl.err # None THEN Panicked
                           ELSE IF r.tag = "Ok"
                                THEN RealpathLoop(f, wd, r.path, Tail(remaining), depth)
                           ELSE r
             ELSE RealpathLoop(f, wd, next, Tail(remaining), depth)

realpath(f, wd, p) == RealpathFrom(f, wd, p, 1)

(*------------------------ realpath, step by step -------------------------*)
\* The working directory is a directory of the file system, named canonically.
WorkDirs(f) == {Root} \cup {MkPath(TRUE, loc) : loc \in {l \in Locs : f[l].kind = "dir"}}

Top == stack[Len(stack)]
Frame(ps, pc) == [parsed |-> ps.parsed, remaining |-> ps.remaining, pc |-> pc]
SetTop(fr) == [stack EXCEPT ![Len(stack)] = fr]

\* Lines 84-92 of the top-level call: the working directory is read, the parser built.
Call ==
    /\ outcome = Idle
    /\ stack' = <<Frame(ParserNew(cwd, path), "loop")>>
    /\ outcome' = Running
    /\ cwd0' = cwd
    /\ UNCHANGED <<fs, cwd, path, fsModified>>
    /\ UNCHANGED notPath

\* Lines 94-108: the next component is taken, parsed is checked to exist, the
\* component is applied and the new parsed is tested for being a symbolic link.
\* A failure leaves through every pending `?` of line 119 at once.
Consume ==
    /\ stack # <<>>
    /\ Top.pc = "loop"
    /\ Top.remaining # <<>>
    /\ LET entry == Head(Top.remaining)
           ex == TryExists(fs, cwd, Top.parsed)
           next == Consumed(Top.parsed, entry)
       IN  IF ex.err # None \/ ~ex.exists
           THEN /\ stack' = <<>>
                /\ outcome' = ErrKind(IF ex.err # None THEN ex.err ELSE "NotFound")
           ELSE /\ stack' = SetTop([parsed |-> next,
                                    remaining |-> Tail(Top.remaining),
                                    pc |-> IF ~is_dot(entry) /\ IsSymlink(fs, cwd, next)
                                           THEN "readlink" ELSE "loop"])
                /\ UNCHANGED outcome
    /\ UNCHANGED <<fs, cwd, cwd0, path, fsModified>>
    /\ UNCHANGED notPath

\* Lines 109-119: the link is read (a failure panics in `expect`), its target is
\* anchored, and realpath is entered again with it.
FollowLink ==
    /\ stack # <<>>
    /\ Top.pc = "readlink"
    /\ LET rl == ReadLink(fs, cwd, Top.parsed)
       IN  IF rl.err # None
           THEN /\ stack' = <<>>
                /\ outcome' = Panicked
           ELSE /\ Len(stack) < MaxStack
                /\ stack' = Append(SetTop([Top EXCEPT !.pc = "wait"]),
                                   Frame(ParserNew(cwd, LinkArgument(Top.parsed, rl.target)),
                                         "loop"))
                /\ UNCHANGED outcome
    /\ UNCHANGED <<fs, cwd, cwd0, path, fsModified>>
    /\ UNCHANGED notPath

\* Line 123, and line 119 in the caller: the loop is over, parsed is returned
\* and, in a nested call, replaces the caller's parsed.
Return ==
    /\ stack # <<>>
    /\ Top.pc = "loop"
    /\ Top.remaining = <<>>
    /\ IF Len(stack) = 1
       THEN /\ stack' = <<>>
            /\ outcome' = OkPath(Top.parsed)
       ELSE /\ stack' = [Front(stack) EXCEPT ![Len(stack) - 1] =
                            [@ EXCEPT !.parsed = Top.parsed, !.pc = "loop"]]
            /\ UNCHANGED outcome
    /\ UNCHANGED <<fs, cwd, cwd0, path, fsModified>>
    /\ UNCHANGED notPath

\* Another actor removes a symbolic link while the call is running.
EnvUnlink ==
    /\ stack # <<>>
    /\ ~fsModified
    /\ \E loc \in Locs :
         /\ fs[loc].kind = "link"
         /\ fs' = [fs EXCEPT ![loc] = NoNode]
    /\ fsModified' = TRUE
    /\ UNCHANGED <<cwd, cwd0, path, stack, outcome>>
    /\ UNCHANGED notPath

\* Another thread changes the process's working directory while the call is
\* running (once).
EnvChdir ==
    /\ stack # <<>>
    /\ cwd = cwd0
    /\ \E d \in WorkDirs(fs) \ {cwd} : cwd' = d
    /\ UNCHANGED <<fs, cwd0, path, stack, outcome, fsModified>>
    /\ UNCHANGED notPath

\* canonicalize(path) as one step on an unmodified file system.
Canonicalize ==
    /\ outcome = Idle
    /\ outcome' = realpath(fs, cwd, path)
    /\ UNCHANGED <<fs, cwd, cwd0, path, stack, fsModified>>
    /\ UNCHANGED notPath

(***************************************************************************)
(* 5. OpenOptions: open_option.rs                                          *)
(***************************************************************************)
\* A c_int of flags is the set of the positions of its one-bits, bit 0 the least
\* significant, bit 31 the sign.  | is \cup, & is \cap, ! is the complement.
Bits32 == 0 .. 31

\* The flags of libc (Linux, x86_64) that Flags declares.
O_RDONLY == {}
O_WRONLY == {0}
O_RDWR == {1}
O_ACCMODE == {0, 1}
O_CREAT == {6}
O_EXCL == {7}
O_NOCTTY == {8}
O_TRUNC == {9}
O_APPEND == {10}
O_NONBLOCK == {11}
O_NDELAY == {11}
O_DSYNC == {12}
O_ASYNC == {13}
O_DIRECT == {14}
O_LARGEFILE == {}
O_DIRECTORY == {16}
O_NOFOLLOW == {17}
O_NOATIME == {18}
O_CLOEXEC == {19}
O_SYNC == {12, 20}
O_RSYNC == {12, 20}
O_FSYNC == {12, 20}
O_PATH == {21}
O_TMPFILE == {16, 22}

\* Flags::all(): every bit some declared flag holds.
FlagsAll ==
    UNION {O_ACCMODE, O_APPEND, O_ASYNC, O_CLOEXEC, O_CREAT, O_DIRECT, O_DIRECTORY,
           O_DSYNC, O_EXCL, O_FSYNC, O_LARGEFILE, O_NOATIME, O_NOCTTY, O_NDELAY,
           O_NOFOLLOW, O_NONBLOCK, O_PATH, O_RDONLY, O_RDWR, O_RSYNC, O_SYNC,
           O_TMPFILE, O_TRUNC, O_WRONLY}

\* Flags::from_bits: None (<<>>) when a bit is set that no declared flag holds.
FromBits(bits) == IF bits \subseteq FlagsAll THEN <<bits>> ELSE <<>>

\* Error numbers are written by their names.
EINVAL == "EINVAL"

OkMode(bits) == [err |-> None, bits |-> bits]
ErrMode(e) == [err |-> e, bits |-> {}]

\* A mutation of get_access_mode: append alone is not taken as write access.
get_access_mode_noappend(o) ==
    IF o.read /\ ~o.write /\ ~o.append THEN OkMode(O_RDONLY)
    ELSE IF ~o.read /\ o.write /\ ~o.append THEN OkMode(O_WRONLY)
    ELSE IF o.read /\ o.write /\ ~o.append THEN OkMode(O_RDWR)
    ELSE IF ~o.read /\ o.write /\ o.append THEN OkMode(O_WRONLY \cup O_APPEND)
    ELSE IF o.read /\ o.append THEN OkMode(O_RDWR \cup O_APPEND)
    ELSE ErrMode(EINVAL)

\* OpenOptions::get_access_mode: the match on (read, write, append), arm by arm.
get_access_mode(o) ==
    IF o.read /\ ~o.write /\ ~o.append THEN OkMode(O_RDONLY)
    ELSE IF ~o.read /\ o.write /\ ~o.append THEN OkMode(O_WRONLY)
    ELSE IF o.read /\ o.write /\ ~o.append THEN OkMode(O_RDWR)
    ELSE IF ~o.read /\ o.append THEN OkMode(O_WRONLY \cup O_APPEND)
    ELSE IF o.read /\ o.append THEN OkMode(O_RDWR \cup O_APPEND)
    ELSE ErrMode(EINVAL)

\* The second match of get_creation_mode, on (create, truncate, create_new).
CreationFlags(o) ==
    IF ~o.create /\ ~o.truncate /\ ~o.create_new THEN {}
    ELSE IF o.create /\ ~o.truncate /\ ~o.create_new THEN O_CREAT
    ELSE IF ~o.create /\ o.truncate /\ ~o.create_new THEN O_TRUNC
    ELSE IF o.create /\ o.truncate /\ ~o.create_new THEN O_CREAT \cup O_TRUNC
    ELSE O_CREAT \cup O_EXCL

\* A mutation of get_creation_mode: the check of append with truncate is missing.
get_creation_mode_lax(o) ==
    IF ~o.write /\ ~o.append /\ (o.truncate \/ o.create \/ o.create_new)
    THEN ErrMode(EINVAL)
    ELSE OkMode(CreationFlags(o))

\* OpenOptions::get_creation_mode: the validity check on (write, append), then
\* the flags.
get_creation_mode(o) ==
    IF o.write /\ ~o.append THEN OkMode(CreationFlags(o))
    ELSE IF ~o.write /\ ~o.append
         THEN IF o.truncate \/ o.create \/ o.create_new
              THEN ErrMode(EINVAL)
              ELSE OkMode(CreationFlags(o))
    ELSE IF o.truncate /\ ~o.create_new
         THEN ErrMode(EINVAL)
         ELSE OkMode(CreationFlags(o))

\* The values of custom_flags (an i32) the model tries: none, declared flags,
\* access-mode bits, a bit no flag declares, the sign bit, and -1.
CustomFlagValues ==
    {{}, O_NOFOLLOW, O_SYNC, O_WRONLY, O_RDWR, O_ACCMODE, O_WRONLY \cup O_NOFOLLOW,
     O_RDWR \cup O_TRUNC, O_CREAT, {2}, {31}, Bits32}

\* The values of mode the model tries: the default 0o666, and 0o600.
ModeValues == {438, 384}

\* A mutation of ExtraFlags: the caller's flags unmasked.
ExtraFlagsUnmasked(o) == o.custom_flags

\* `self.custom_flags as libc::c_int & !libc::O_ACCMODE`.
ExtraFlags(o) == o.custom_flags \cap (Bits32 \ O_ACCMODE)

\* The flag word OpenOptions::open builds, piece by piece: <<>> when a
\* from_bits(..).unwrap() panics, "err" parts handled by the caller below.
OpenFlag(o) ==
    LET parts == <<FromBits(O_CLOEXEC), FromBits(get_access_mode(o).bits),
                   FromBits(get_creation_mode(o).bits), FromBits(ExtraFlags(o))>>
    IN  IF \E i \in 1 .. 4 : parts[i] = <<>> THEN <<>>
        ELSE <<parts[1][1] \cup parts[2][1] \cup parts[3][1] \cup parts[4][1]>>

\* open(2) on the path, as far as the flags decide it: the result and what
\* becomes of the file.
KOpen(file, flags) ==
    IF file = "absent"
    THEN IF O_CREAT \subseteq flags
         THEN [res |-> "fd", file |-> "empty"]
         ELSE [res |-> "ENOENT", file |-> file]
    ELSE IF O_CREAT \subseteq flags /\ O_EXCL \subseteq flags
         THEN [res |-> "EEXIST", file |-> file]
    ELSE IF O_DIRECTORY \subseteq flags
         THEN [res |-> "ENOTDIR", file |-> file]
    ELSE IF O_TRUNC \subseteq flags /\ O_PATH \cap flags = {}
         THEN [res |-> "fd", file |-> "empty"]
    ELSE [res |-> "fd", file |-> file]

\* OpenOptions::new: every option false, custom_flags 0, mode 0o666.
OpenOptions_new ==
    [read |-> FALSE, write |-> FALSE, append |-> FALSE, truncate |-> FALSE,
     create |-> FALSE, create_new |-> FALSE, custom_flags |-> {}, mode |-> 438]

\* The setters of the builder.
OpenOptions_read ==
    /\ oo_result = "idle"
    /\ \E b \in BOOLEAN : oo' = [oo EXCEPT !.read = b]
    /\ UNCHANGED <<oo_result, kflags, kfile>>
    /\ UNCHANGED notOpen

OpenOptions_write ==
    /\ oo_result = "idle"
    /\ \E b \in BOOLEAN : oo' = [oo EXCEPT !.write = b]
    /\ UNCHANGED <<oo_result, kflags, kfile>>
    /\ UNCHANGED notOpen

OpenOptions_append ==
    /\ oo_result = "idle"
    /\ \E b \in BOOLEAN : oo' = [oo EXCEPT !.append = b]
    /\ UNCHANGED <<oo_result, kflags, kfile>>
    /\ UNCHANGED notOpen

OpenOptions_truncate ==
    /\ oo_result = "idle"
    /\ \E b \in BOOLEAN : oo' = [oo EXCEPT !.truncate = b]
    /\ UNCHANGED <<oo_result, kflags, kfile>>
    /\ UNCHANGED notOpen

OpenOptions_create ==
    /\ oo_result = "idle"
    /\ \E b \in BOOLEAN : oo' = [oo EXCEPT !.create = b]
    /\ UNCHANGED <<oo_result, kflags, kfile>>
    /\ UNCHANGED notOpen

OpenOptions_create_new ==
    /\ oo_result = "idle"
    /\ \E b \in BOOLEAN : oo' = [oo EXCEPT !.create_new = b]
    /\ UNCHANGED <<oo_result, kflags, kfile>>
    /\ UNCHANGED notOpen

OpenOptions_custom_flags ==
    /\ oo_result = "idle"
    /\ \E x \in CustomFlagValues : oo' = [oo EXCEPT !.custom_flags = x]
    /\ UNCHANGED <<oo_result, kflags, kfile>>
    /\ UNCHANGED notOpen

OpenOptions_mode ==
    /\ oo_result = "idle"
    /\ \E m \in ModeValues : oo' = [oo EXCEPT !.mode = m]
    /\ UNCHANGED <<oo_result, kflags, kfile>>
    /\ UNCHANGED notOpen

\* OpenOptions::open: the `?` of get_access_mode, then that of
\* get_creation_mode, then the unwrap of the extra flags, then the primitive.
OpenOptions_open ==
    /\ oo_result = "idle"
    /\ IF get_access_mode(oo).err # None
       THEN /\ oo_result' = get_access_mode(oo).err
            /\ UNCHANGED <<kflags, kfile>>
       ELSE IF get_creation_mode(oo).err # None
       THEN /\ oo_result' = get_creation_mode(oo).err
            /\ UNCHANGED <<kflags, kfile>>
       ELSE IF OpenFlag(oo) = <<>>
       THEN /\ oo_result' = "panic"
            /\ UNCHANGED <<kflags, kfile>>
       ELSE /\ kflags' = Append(kflags, OpenFlag(oo)[1])
            /\ oo_result' = KOpen(kfile, OpenFlag(oo)[1]).res
            /\ kfile' = KOpen(kfile, OpenFlag(oo)[1]).file
    /\ UNCHANGED oo
    /\ UNCHANGED notOpen

(***************************************************************************)
(* 6. Device ids: backend/major_minor.rs                                   *)
(*                                                                         *)
(* A dev_t is 64 bits wide and a c_uint 32; both are modelled, like the    *)
(* flag words, as the set of the positions of their one bits.              *)
(***************************************************************************)
Bits64 == 0 .. 63

\* The bits of a hexadecimal literal, given as its digits, the most
\* significant first: 0x0ff0 is Hex(<<0, 15, 15, 0>>) = {4, .. , 11}.
Hex(digits) ==
    {4 * (Len(digits) - i) + b : i \in 1 .. Len(digits), b \in 0 .. 3} \cap
    {k \in 0 .. 4 * Len(digits) - 1 :
        (digits[Len(digits) - (k \div 4)] \div (2 ^ (k % 4))) % 2 = 1}

\* x << k on a u64: the bits pushed past bit 63 are lost.
Shl(x, k) == {i + k : i \in x} \cap Bits64

\* x >> k on a u64.
Shr(x, k) == {i - k : i \in {j \in x : j >= k}}

\* `x as libc::c_uint`: the low 32 bits.
AsCUint(x) == x \cap Bits32

\* major reading its extension from the whole upper word, bits 32-63.
major_upper_word(dev) ==
    AsCUint(Shr(dev \cap Hex(<<0,0,0,0,0,0,0,0,0,0,0,15,15,15,0,0>>), 8)
            \cup Shr(dev \cap Hex(<<15,15,15,15,15,15,15,15,0,0,0,0,0,0,0,0>>), 32))

major(dev) ==
    AsCUint(Shr(dev \cap Hex(<<0,0,0,0,0,0,0,0,0,0,0,15,15,15,0,0>>), 8)
            \cup Shr(dev \cap Hex(<<15,15,15,15,15,0,0,0,0,0,0,0,0,0,0,0>>), 32))

minor(dev) ==
    AsCUint((dev \cap Hex(<<0,0,0,0,0,0,0,0,0,0,0,0,0,0,15,15>>))
            \cup Shr(dev \cap Hex(<<0,0,0,0,0,15,15,15,15,15,15,0,0,0,0,0>>), 12))

\* makedev with the extension of the minor number cut to twelve bits, so that
\* it ends at bit 31 of the device id.
makedev_narrow(mj, mn) ==
    Shl(mj \cap Hex(<<0,0,0,0,0,15,15,15>>), 8)
    \cup Shl(mj \cap Hex(<<15,15,15,15,15,0,0,0>>), 32)
    \cup (mn \cap Hex(<<0,0,0,0,0,0,15,15>>))
    \cup Shl(mn \cap Hex(<<0,0,0,15,15,15,0,0>>), 12)

makedev(mj, mn) ==
    Shl(mj \cap Hex(<<0,0,0,0,0,15,15,15>>), 8)
    \cup Shl(mj \cap Hex(<<15,15,15,15,15,0,0,0>>), 32)
    \cup (mn \cap Hex(<<0,0,0,0,0,0,15,15>>))
    \cup Shl(mn \cap Hex(<<15,15,15,15,15,15,0,0>>), 12)

\* The 32-bit numbers the callers hand over: every single bit, no bit, all
\* bits, and a few mixed words.
DevWords ==
    {{i} : i \in Bits32} \cup {{}, Bits32, 0 .. 7, 8 .. 31, 0 .. 11, 12 .. 31,
                               {0, 8, 12, 31}, {7, 11, 19, 20}}

\* The device ids the kernel reports in st_dev: every single bit, and some
\* mixed ones.
DevIds ==
    {{i} : i \in Bits64} \cup {{}, Bits64, 0 .. 31, 32 .. 63, {8, 20, 32, 44}}

\* metadata.rs builds a device id from a major and a minor number.
Makedev ==
    /\ dv_dev = <<>>
    /\ dv_dev' = <<[dev |-> makedev(dv_major, dv_minor), by |-> "makedev"]>>
    /\ UNCHANGED <<dv_major, dv_minor, dv_dec>>
    /\ UNCHANGED notDev

\* A device id arrives from the kernel in a stat buffer.
StatDev ==
    /\ dv_dev = <<>>
    /\ \E d \in DevIds : dv_dev' = <<[dev |-> d, by |-> "kernel"]>>
    /\ UNCHANGED <<dv_major, dv_minor, dv_dec>>
    /\ UNCHANGED notDev

\* The device id is split into its major and minor numbers.
Decode ==
    /\ dv_dev # <<>>
    /\ dv_dec = <<>>
    /\ dv_dec' = <<major(dv_dev[1].dev), minor(dv_dev[1].dev)>>
    /\ UNCHANGED <<dv_major, dv_minor, dv_dev>>
    /\ UNCHANGED notDev

(***************************************************************************)
(* 7. The gateway primitives in their two layers: the raw bindings of      *)
(*    backend/libc_like_syscall.rs and the io::Error wrappers of           *)
(*    backend/encapsulation.rs                                             *)
(***************************************************************************)
\* The raw bindings.  creat is open with fixed flags; every other binding is
\* one syscall! followed by syscall_result.
RawBindings ==
    {"open", "creat", "read", "write", "pread", "pwrite", "link", "unlink",
     "symlink", "mkdir", "rmdir", "rename", "stat", "fstat", "lstat", "statx",
     "getdents64", "chroot", "lseek64", "readlink", "fcntl_with_two_args",
     "fsync", "fdatasync", "ftruncate", "chmod", "fchmod", "utimensat",
     "chown", "fchown", "lchown"}

\* The wrappers that turn their path arguments into C strings.
PathWrappers ==
    {"open", "creat", "link", "unlink", "symlink", "mkdir", "rmdir", "rename",
     "stat", "lstat", "statx", "lstatx", "chroot", "readlink", "chmod",
     "chown", "lchown"}

\* The wrappers.
Wrappers ==
    PathWrappers \cup
    {"read", "write", "pread", "pwrite", "fstat", "fstatx", "getdents64",
     "lseek64", "fsync", "fdatasync", "ftruncate", "fchmod", "futimens",
     "fchown"}

\* The raw binding a wrapper calls.
RawOf(w) ==
    CASE w \in {"lstatx", "fstatx"} -> "statx"
      [] w = "futimens" -> "utimensat"
      [] OTHER -> w

\* The lengths handed to the ftruncate wrapper (u64): the ends of the range
\* and the two values around the largest off_t.
Lengths == {0, Pow2(WordBits - 1) - 1, Pow2(WordBits - 1), WordMod - 1}

\* `length.try_into()` from u64 to off_t (i64) succeeds.
FitsOffT(length) == length < Pow2(WordBits - 1)

\* Results and errors.  An io::Error is Os(code) when it was made from an
\* error number, and a kind with a payload when it was made by Error::new.
NoError == [repr |-> "none", code |-> 0]
Errno(e) == [repr |-> "c_int", code |-> e]
InvalidInput == [repr |-> "Custom(InvalidInput)", code |-> 0]
POk(v) == [tag |-> "Ok", val |-> v, err |-> NoError]
PErr(e) == [tag |-> "Err", val |-> 0, err |-> e]
Panic == [tag |-> "panic", val |-> 0, err |-> NoError]

\* A mutation of from_raw_os_error: the number replaced by its category.
from_raw_os_error_kind(errno) ==
    [repr |-> IF errno = 2 THEN "Simple(NotFound)" ELSE "Simple(Other)", code |-> 0]

\* Error::from_raw_os_error.
from_raw_os_error(errno) == [repr |-> "Os", code |-> errno]

\* One call of a raw binding, the kernel answering its one invocation with
\* the word r: the words it received and its result.
RawBinding(b, r) ==
    LET res == syscall_result(r)
    IN  [words |-> <<r>>,
         res |-> IF res.ok THEN POk(res.val) ELSE PErr(Errno(res.val))]

\* One call of a wrapper.  nul: one of its path arguments holds a zero byte
\* (CString::new fails and unwrap panics); length: the argument of
\* ftruncate.
Wrapper(w, nul, length, r) ==
    IF w \in PathWrappers /\ nul
    THEN [words |-> <<>>, res |-> Panic]
    ELSE IF w = "ftruncate" /\ ~FitsOffT(length)
    THEN [words |-> <<>>, res |-> PErr(InvalidInput)]
    ELSE LET raw == RawBinding(RawOf(w), r)
         IN  [words |-> raw.words,
              res |-> IF raw.res.tag = "Ok" THEN raw.res
                      ELSE PErr(from_raw_os_error(raw.res.err.code))]

\* A caller calls a raw binding.
RawCall ==
    /\ pcall = <<>>
    /\ \E b \in RawBindings, r \in RawWords :
         /\ pcall' = <<[layer |-> "raw", prim |-> b, nul |-> FALSE, length |-> 0]>>
         /\ kwords' = RawBinding(b, r).words
         /\ pres' = <<RawBinding(b, r).res>>
    /\ UNCHANGED notPrim

\* A caller calls a wrapper.
WrapperCall ==
    /\ pcall = <<>>
    /\ \E w \in Wrappers, nul \in BOOLEAN, length \in Lengths, r \in RawWords :
         /\ nul => w \in PathWrappers
         /\ length # 0 => w = "ftruncate"
         /\ pcall' = <<[layer |-> "wrapper", prim |-> w, nul |-> nul,
                        length |-> length]>>
         /\ kwords' = Wrapper(w, nul, length, r).words
         /\ pres' = <<Wrapper(w, nul, length, r).res>>
    /\ UNCHANGED notPrim

(***************************************************************************)
(* 8. Reading and writing one regular file: creat, open, read, write and   *)
(*    lseek64 of backend/encapsulation.rs over backend/libc_like_syscall.rs *)
(*                                                                         *)
(* The kernel is taken to transfer the whole count on a regular file: a    *)
(* write stores every byte of the buffer, a read returns every byte that   *)
(* lies between the offset and the end of the file, up to the count.       *)
(***************************************************************************)
\* Two byte values tell every position from its neighbour; 0 is also what a
\* hole reads as.
Bytes == {0, 1}

\* The non-empty buffers of at most n bytes.
Buffers(n) == UNION {[1 .. k -> Bytes] : k \in 1 .. n}

\* One more change of the content is recorded: the first one in full, of the
\* later ones only that there were some.  What the callers' reads can rely on
\* depends on whether there was one change or more than one.
Changed(mods, op, buf, pos, res) ==
    IF mods = <<>>
    THEN <<[op |-> op, buf |-> buf, at |-> pos, ret |-> res]>>
    ELSE <<mods[1], [op |-> "more", buf |-> <<>>, at |-> 0, ret |-> POk(0)]>>

NoOp == [op |-> "none", fd |-> 0, count |-> 0, at |-> 0, ret |-> POk(0),
         buf |-> <<>>]

\* The flag words open is called with.
RwOpenFlags ==
    {O_RDONLY, O_WRONLY, O_RDWR, O_WRONLY \cup O_APPEND, O_RDWR \cup O_APPEND,
     O_WRONLY \cup O_TRUNC, O_WRONLY \cup O_CREAT \cup O_TRUNC,
     O_RDWR \cup O_CREAT \cup O_EXCL}

\* libc_like_syscall::creat: open with these flags.
creat_flags == O_RDONLY \cup O_CREAT \cup O_TRUNC

Readable(desc) == desc.acc \in {O_RDONLY, O_RDWR}
Writable(desc) == desc.acc \in {O_WRONLY, O_RDWR}

\* The number of the i-th descriptor (0, 1 and 2 are taken).
FdNumber(i) == i + 2

\* The kernel's word for the failure with error number e.
MinusErrno(e) == WordMod - e

\* open(2) on the path: the word returned, the file and the descriptors
\* afterwards.  ENOENT is 2 and EEXIST 17.
KOpenFile(file, fds, flags) ==
    IF file = <<>> /\ ~(O_CREAT \subseteq flags)
    THEN [word |-> MinusErrno(2), file |-> file, fds |-> fds, trunc |-> FALSE]
    ELSE IF file # <<>> /\ (O_CREAT \cup O_EXCL) \subseteq flags
    THEN [word |-> MinusErrno(17), file |-> file, fds |-> fds, trunc |-> FALSE]
    ELSE [word |-> FdNumber(Len(fds) + 1),
          file |-> IF file = <<>> \/ O_TRUNC \subseteq flags THEN << <<>> >>
                   ELSE file,
          fds |-> Append(fds, [acc |-> flags \cap O_ACCMODE,
                               append |-> O_APPEND \subseteq flags,
                               off |-> 0]),
          trunc |-> file # <<>> /\ O_TRUNC \subseteq flags /\ file[1] # <<>>]

\* Where a write through desc lands.
WritePos(content, desc) == IF desc.append THEN Len(content) ELSE desc.off

\* The content after count bytes of buf were stored at pos; a gap between
\* the old end and pos reads as zero bytes.
Stored(content, pos, buf, count) ==
    [i \in 1 .. (IF pos + count > Len(content) THEN pos + count ELSE Len(content)) |->
        IF i > pos /\ i <= pos + count THEN buf[i - pos]
        ELSE IF i <= Len(content) THEN content[i]
        ELSE 0]

\* write(2): EBADF (9) on a descriptor not open for writing.
KWrite(content, desc, buf, count) ==
    IF ~Writable(desc)
    THEN [word |-> MinusErrno(9), content |-> content, off |-> desc.off]
    ELSE [word |-> count,
          content |-> Stored(content, WritePos(content, desc), buf, count),
          off |-> WritePos(content, desc) + count]

\* The bytes of the file from the offset on, at most count of them.
Available(content, off, count) ==
    IF off >= Len(content) THEN <<>>
    ELSE SubSeq(content, off + 1,
                IF off + count > Len(content) THEN Len(content) ELSE off + count)

\* read(2): EBADF (9) on a descriptor not open for reading.
KRead(content, desc, count) ==
    IF ~Readable(desc)
    THEN [word |-> MinusErrno(9), data |-> <<>>, off |-> desc.off]
    ELSE [word |-> Len(Available(content, desc.off, count)),
          data |-> Available(content, desc.off, count),
          off |-> desc.off + Len(Available(content, desc.off, count))]

\* A mutation of BufLen: the last byte of the buffer left out.
BufLenShort(buf) == Len(buf) - 1

\* `buf.len()`, the count the wrappers of read and write hand to the kernel.
BufLen(buf) == Len(buf)

\* The buffer after the kernel stored data at its start.
Filled(buf, data) ==
    [i \in 1 .. Len(buf) |-> IF i <= Len(data) THEN data[i] ELSE buf[i]]

\* encapsulation::creat.
RwCreat ==
    /\ rw_n < MaxRwOps
    /\ Len(rw_fds) < MaxRwFds
    /\ LET k == KOpenFile(rw_file, rw_fds, creat_flags)
       IN  /\ rw_file' = k.file
           /\ rw_fds' = k.fds
           /\ rw_mods' = IF k.trunc THEN Changed(rw_mods, "trunc", <<>>, 0, POk(0))
                             ELSE rw_mods
           /\ rw_last' = [op |-> "creat", fd |-> Len(k.fds), count |-> 0, at |-> 0,
                          ret |-> Wrapper("creat", FALSE, 0, k.word).res, buf |-> <<>>]
    /\ rw_n' = rw_n + 1
    /\ UNCHANGED notRw

\* encapsulation::open.
RwOpen ==
    /\ rw_n < MaxRwOps
    /\ Len(rw_fds) < MaxRwFds
    /\ \E flags \in RwOpenFlags :
         LET k == KOpenFile(rw_file, rw_fds, flags)
         IN  /\ rw_file' = k.file
             /\ rw_fds' = k.fds
             /\ rw_mods' = IF k.trunc THEN Changed(rw_mods, "trunc", <<>>, 0, POk(0))
                             ELSE rw_mods
             /\ rw_last' = [op |-> "open", fd |-> Len(k.fds), count |-> 0, at |-> 0,
                            ret |-> Wrapper("open", FALSE, 0, k.word).res, buf |-> <<>>]
    /\ rw_n' = rw_n + 1
    /\ UNCHANGED notRw

\* encapsulation::write.
RwWrite ==
    /\ rw_n < MaxRwOps
    /\ \E d \in 1 .. Len(rw_fds), buf \in Buffers(MaxBuf) :
         LET pos == WritePos(rw_file[1], rw_fds[d])
             k == KWrite(rw_file[1], rw_fds[d], buf, BufLen(buf))
             res == Wrapper("write", FALSE, 0, k.word).res
         IN  /\ pos + Len(buf) <= MaxFileLen
             /\ rw_file' = <<k.content>>
             /\ rw_fds' = [rw_fds EXCEPT ![d].off = k.off]
             /\ rw_mods' = IF res.tag = "Ok" THEN Changed(rw_mods, "write", buf, pos, res)
                           ELSE rw_mods
             /\ rw_last' = [op |-> "write", fd |-> d, count |-> Len(buf), at |-> 0,
                            ret |-> res, buf |-> buf]
    /\ rw_n' = rw_n + 1
    /\ UNCHANGED notRw

\* encapsulation::read into a buffer the caller filled with one byte value.
RwRead ==
    /\ rw_n < MaxRwOps
    /\ \E d \in 1 .. Len(rw_fds), n \in 1 .. MaxFileLen, fill \in Bytes :
         LET buf == [i \in 1 .. n |-> fill]
             k == KRead(rw_file[1], rw_fds[d], BufLen(buf))
         IN  /\ rw_fds' = [rw_fds EXCEPT ![d].off = k.off]
             /\ rw_last' = [op |-> "read", fd |-> d, count |-> n, at |-> 0,
                            ret |-> Wrapper("read", FALSE, 0, k.word).res,
                            buf |-> Filled(buf, k.data)]
    /\ rw_n' = rw_n + 1
    /\ UNCHANGED <<rw_file, rw_mods>>
    /\ UNCHANGED notRw

\* encapsulation::lseek64 with Whence::Set.
RwSeek ==
    /\ rw_n < MaxRwOps
    /\ \E d \in 1 .. Len(rw_fds), offset \in 0 .. MaxFileLen :
         /\ rw_fds' = [rw_fds EXCEPT ![d].off = offset]
         /\ rw_last' = [op |-> "lseek64", fd |-> d, count |-> 0, at |-> 0,
                        ret |-> Wrapper("lseek64", FALSE, 0, offset).res, buf |-> <<>>]
    /\ rw_n' = rw_n + 1
    /\ UNCHANGED <<rw_file, rw_mods>>
    /\ UNCHANGED notRw

\* A mutation of AsOffT: the offset dropped, every positioned call going to
\* the start of the file.
AsOffTStart(offset) == 0

\* `offset as libc::off_t`: the u64 offset read as a signed number.
AsOffT(offset) == AsIsize(offset)

\* The offsets handed to pread and pwrite: inside, at and behind the end of
\* the file, and one that is negative as an off_t.
Offsets == (0 .. MaxFileLen) \cup {Pow2(WordBits - 1)}

\* pwrite(2): EBADF (9) on a descriptor not open for writing, EINVAL (22) on a
\* negative offset.  On a descriptor opened with O_APPEND Linux appends the
\* data whatever the offset is.  The descriptor's offset is not touched.
KPwrite(content, desc, buf, count, off) ==
    IF ~Writable(desc) THEN [word |-> MinusErrno(9), content |-> content]
    ELSE IF off < 0 THEN [word |-> MinusErrno(22), content |-> content]
    ELSE [word |-> count,
          content |-> Stored(content,
                             IF desc.append THEN Len(content) ELSE off,
                             buf, count)]

\* pread(2): EBADF (9) on a descriptor not open for reading, EINVAL (22) on a
\* negative offset.  The descriptor's offset is not touched.
KPread(content, desc, count, off) ==
    IF ~Readable(desc) THEN [word |-> MinusErrno(9), data |-> <<>>]
    ELSE IF off < 0 THEN [word |-> MinusErrno(22), data |-> <<>>]
    ELSE [word |-> Len(Available(content, off, count)),
          data |-> Available(content, off, count)]

\* encapsulation::pwrite.
RwPwrite ==
    /\ rw_n < MaxPosOps
    /\ \E d \in 1 .. Len(rw_fds), buf \in Buffers(MaxBuf), offset \in Offsets :
         LET k == KPwrite(rw_file[1], rw_fds[d], buf, BufLen(buf), AsOffT(offset))
             res == Wrapper("pwrite", FALSE, 0, k.word).res
         IN  /\ Len(k.content) <= MaxFileLen
             /\ rw_file' = <<k.content>>
             /\ rw_mods' = IF res.tag = "Ok"
                           THEN Changed(rw_mods, "pwrite", <<>>, 0, POk(0))
                           ELSE rw_mods
             /\ rw_last' = [op |-> "pwrite", fd |-> d, count |-> Len(buf),
                            at |-> offset, ret |-> res, buf |-> buf]
    /\ rw_n' = rw_n + 1
    /\ UNCHANGED rw_fds
    /\ UNCHANGED notRw

\* encapsulation::pread into a buffer of zero bytes.
RwPread ==
    /\ rw_n < MaxPosOps
    /\ \E d \in 1 .. Len(rw_fds), n \in 1 .. MaxFileLen, offset \in Offsets :
         LET buf == [i \in 1 .. n |-> 0]
             k == KPread(rw_file[1], rw_fds[d], BufLen(buf), AsOffT(offset))
         IN  rw_last' = [op |-> "pread", fd |-> d, count |-> n, at |-> offset,
                         ret |-> Wrapper("pread", FALSE, 0, k.word).res,
                         buf |-> Filled(buf, k.data)]
    /\ rw_n' = rw_n + 1
    /\ UNCHANGED <<rw_file, rw_fds, rw_mods>>
    /\ UNCHANGED notRw

(***************************************************************************)
(* 9. File times: metadata.rs, file.rs, filetimes.rs and futimens of       *)
(*    backend/encapsulation.rs                                             *)
(***************************************************************************)
SystemTime_new(sec, nsec) == [sec |-> sec, nsec |-> nsec]

\* SystemTime::default(), the time FileTimes::new() holds in both places.
SystemTime_default == SystemTime_new(0, 0)

\* The timestamps of the model.
Times == {SystemTime_new(sec, nsec) : sec \in 0 .. MaxSec, nsec \in {0, 1}}

\* A FileTimes is the pair <<access time, modification time>>.
FileTimes_new == <<SystemTime_default, SystemTime_default>>

FileTimes_set_accessed(ft, t) == [ft EXCEPT ![1] = t]

FileTimes_set_modified(ft, t) == [ft EXCEPT ![2] = t]

\* TimestampSpec::Set(time) turned into the kernel's timespec.
TimespecSet(time) == [tv_sec |-> time.sec, tv_nsec |-> time.nsec]

\* utimensat(2) with two timespecs that name times: both timestamps are
\* set, and the status-change time becomes the present.
KUtimensat(k, times, now) ==
    [k EXCEPT !.atime = SystemTime_new(times[1].tv_sec, times[1].tv_nsec),
              !.mtime = SystemTime_new(times[2].tv_sec, times[2].tv_nsec),
              !.ctime = now]

\* encapsulation::futimens with atime = Set(a) and mtime = Set(m).
futimens(k, a, m, now) == KUtimensat(k, <<TimespecSet(a), TimespecSet(m)>>, now)

File_set_times(k, times, now) == futimens(k, times[1], times[2], now)

File_set_modified(k, time, now) ==
    File_set_times(k, FileTimes_set_modified(FileTimes_new, time), now)

\* Statx::ctime and Statx::btime: (tv_sec, tv_nsec) of the record's field.
Statx_ctime(stx) == <<stx.ctime.sec, stx.ctime.nsec>>
Statx_btime(stx) == <<stx.btime.sec, stx.btime.nsec>>

Metadata_created(stx) ==
    [tag |-> "Ok", val |-> SystemTime_new(Statx_ctime(stx)[1], Statx_ctime(stx)[2])]

\* file.metadata() followed by Metadata::created.
FileCreated ==
    /\ mt_last' = <<[op |-> "created", arg |-> <<>>, ret |-> Metadata_created(ktimes[1])]>>
    /\ UNCHANGED ktimes
    /\ UNCHANGED notMeta

\* File::set_times with a FileTimes built from FileTimes::new().
FileSetTimes ==
    /\ \E a \in Times, m \in Times, now \in Times :
         LET times == FileTimes_set_modified(FileTimes_set_accessed(FileTimes_new, a), m)
         IN  /\ ktimes' = <<File_set_times(ktimes[1], times, now)>>
             /\ mt_last' = <<[op |-> "set_times", arg |-> times,
                              ret |-> [tag |-> "Ok", val |-> SystemTime_default]]>>
    /\ UNCHANGED notMeta

\* File::set_modified.
FileSetModified ==
    /\ \E time \in Times, now \in Times :
         /\ ktimes' = <<File_set_modified(ktimes[1], time, now)>>
         /\ mt_last' = <<[op |-> "set_modified", arg |-> <<time>>,
                          ret |-> [tag |-> "Ok", val |-> SystemTime_default]]>>
    /\ UNCHANGED notMeta

(***************************************************************************)
(* 10. create_dir_all: dirbuilder.rs, functions.rs                         *)
(***************************************************************************)
MkLocs == {<<"a">>, <<"b">>, <<"a", "b">>, <<"a", "b", "a">>}
MkNodes == {NoNode, DirNode, FileNode, LinkNode(MkPath(TRUE, <<"b">>))}

\* The file systems a call may start in.
MkFileSystems ==
    {f \in [MkLocs -> MkNodes] :
        \A loc \in MkLocs : f[loc].kind # "none" => NodeAt(f, Front(loc)).kind = "dir"}

MkArgs == {MkPath(a, s) : a \in BOOLEAN, s \in SeqsUpTo(Names \cup {".."}, MaxMkLen)}

SetNode(f, loc, n) == [l \in DOMAIN f \cup {loc} |-> IF l = loc THEN n ELSE f[l]]

\* mkdir(2): the parent is walked with links followed and has to be a
\* directory; the last component must not exist (a link is not followed).
KMkdir(f, wd, p) ==
    IF p.segs = <<>>
    THEN [st |-> IF p.abs THEN "EEXIST" ELSE "ENOENT", f |-> f]
    ELSE LET par == KWalk(f, IF p.abs THEN <<>> ELSE wd.segs, Front(p.segs), TRUE,
                          MaxFollows)
             last == p.segs[Len(p.segs)]
             child == Append(par.loc, last)
         IN  IF par.st # "ok" THEN [st |-> par.st, f |-> f]
             ELSE IF NodeAt(f, par.loc).kind # "dir" THEN [st |-> "ENOTDIR", f |-> f]
             ELSE IF last \in {".", ".."} THEN [st |-> "EEXIST", f |-> f]
             ELSE IF NodeAt(f, child).kind # "none" THEN [st |-> "EEXIST", f |-> f]
             ELSE [st |-> "ok", f |-> SetNode(f, child, DirNode)]

\* Path::is_dir: stat succeeded and found a directory.
IsDir(f, wd, p) ==
    LET r == KStat(f, wd, p)
    IN  r.st = "ok" /\ NodeAt(f, r.loc).kind = "dir"

\* A mutation of IsNotFound: no error of the first mkdir asks for the parent.
IsNotFoundNever(e) == FALSE

\* `e.kind() == ErrorKind::NotFound`.
IsNotFound(e) == e = "ENOENT"

MkOk == [tag |-> "Ok", path |-> Root, kind |-> None]
MkErr(e) == [tag |-> "Err", path |-> Root, kind |-> e]

Activation(p, pc, e) == [path |-> p, pc |-> pc, err |-> e]
AtTop(pc, e) == [stack EXCEPT ![Len(stack)] = Activation(Top.path, pc, e)]

\* An activation returns res: the outermost one ends the call; an inner one
\* hands Ok to its caller, which goes on to its second mkdir, and an error is
\* passed up by `?` through every caller.
CdaReturn(res) ==
    IF res.tag = "Ok" /\ Len(stack) > 1
    THEN /\ stack' = [Front(stack) EXCEPT ![Len(stack) - 1].pc = "second"]
         /\ UNCHANGED outcome
    ELSE /\ stack' = <<>>
         /\ outcome' = res

\* Lines 49-69: the empty path, or the first mkdir and what its result asks
\* for: the parent first, or the error when there is no parent.
CdaFirst ==
    /\ stack # <<>> /\ Top.pc = "first"
    /\ IF Top.path = MkPath(FALSE, <<>>)
       THEN CdaReturn(MkOk) /\ UNCHANGED <<fs, mk_made>>
       ELSE LET r == KMkdir(fs, cwd, Top.path)
            IN  /\ fs' = r.f
                /\ IF r.st = "ok"
                   THEN mk_made' = Append(mk_made, Top.path) /\ CdaReturn(MkOk)
                   ELSE /\ UNCHANGED mk_made
                        /\ IF IsNotFound(r.st) /\ HasParent(Top.path)
                           THEN /\ stack' = Append(AtTop("wait", None),
                                       Activation(Parent(Top.path), "first", None))
                                /\ UNCHANGED outcome
                           ELSE IF IsNotFound(r.st)
                           THEN CdaReturn(MkErr("Uncategorized"))
                           ELSE stack' = AtTop("isdir", r.st) /\ UNCHANGED outcome
    /\ UNCHANGED <<cwd, cwd0, path, fsModified, mk_env>>
    /\ UNCHANGED notMk

\* Lines 56 and 72: `Err(_) if path.is_dir()`, else the error of the mkdir.
CdaIsDir ==
    /\ stack # <<>> /\ Top.pc = "isdir"
    /\ CdaReturn(IF IsDir(fs, cwd, Top.path) THEN MkOk ELSE MkErr(Top.err))
    /\ UNCHANGED <<fs, cwd, cwd0, path, fsModified, mk_made, mk_env>>
    /\ UNCHANGED notMk

\* Lines 70-74: the second mkdir, after the parent has been made.
CdaSecond ==
    /\ stack # <<>> /\ Top.pc = "second"
    /\ LET r == KMkdir(fs, cwd, Top.path)
       IN  /\ fs' = r.f
           /\ IF r.st = "ok"
              THEN mk_made' = Append(mk_made, Top.path) /\ CdaReturn(MkOk)
              ELSE /\ stack' = AtTop("isdir", r.st)
                   /\ UNCHANGED <<mk_made, outcome>>
    /\ UNCHANGED <<cwd, cwd0, path, fsModified, mk_env>>
    /\ UNCHANGED notMk

\* Another actor creates a directory while the call is running.
MkEnvMkdir ==
    /\ stack # <<>>
    /\ Len(mk_env) < MaxEnvOps
    /\ \E loc \in MkLocs :
         /\ NodeAt(fs, loc).kind = "none"
         /\ NodeAt(fs, Front(loc)).kind = "dir"
         /\ fs' = SetNode(fs, loc, DirNode)
         /\ mk_env' = Append(mk_env, loc)
    /\ UNCHANGED <<cwd, cwd0, path, stack, outcome, fsModified, mk_made>>
    /\ UNCHANGED notMk

(***************************************************************************)
(* 11. The type of a directory entry: backend/encapsulation.rs,            *)
(*     filetype.rs, functions.rs                                           *)
(***************************************************************************)
\* The d_type values of <dirent.h>.
DT_UNKNOWN == 0
DT_FIFO == 1
DT_CHR == 2
DT_DIR == 4
DT_BLK == 6
DT_REG == 8
DT_LNK == 10
DT_SOCK == 12

\* Every value of a c_uchar.
TypeTags == 0 .. 255

\* What a name of a directory may really be, and the tag of each.
NodeTag ==
    [RegularFile |-> DT_REG, Directory |-> DT_DIR, Socket |-> DT_SOCK, Fifo |-> DT_FIFO,
     CharDev |-> DT_CHR, BlkDev |-> DT_BLK, Symlink |-> DT_LNK]
FileTypes == DOMAIN NodeTag

\* A mutation of FileType_from: only DT_LNK is a symbolic link, a tag without
\* a type is taken as a regular file.
FileType_from_lnk(file_type_char) ==
    IF file_type_char = DT_LNK THEN "Symlink"
    ELSE IF file_type_char \in {NodeTag[t] : t \in FileTypes}
    THEN CHOOSE t \in FileTypes : NodeTag[t] = file_type_char
    ELSE "RegularFile"

\* impl From<libc::c_uchar> for FileType.
FileType_from(file_type_char) ==
    IF file_type_char = DT_REG THEN "RegularFile"
    ELSE IF file_type_char = DT_DIR THEN "Directory"
    ELSE IF file_type_char = DT_SOCK THEN "Socket"
    ELSE IF file_type_char = DT_FIFO THEN "Fifo"
    ELSE IF file_type_char = DT_CHR THEN "CharDev"
    ELSE IF file_type_char = DT_BLK THEN "BlkDev"
    ELSE "Symlink"

\* filetype::FileType::is_dir.
FileType_is_dir(file_type) == file_type = "Directory"

\* Dirent::new and DirEntry::file_type: the type decoded from the record.
DirentFileType ==
    /\ ft_last = <<>>
    /\ ft_last' = <<[file_type |-> FileType_from(ft_entry[1].d_type), call |-> "none"]>>
    /\ UNCHANGED ft_entry
    /\ UNCHANGED notType

\* The loop body of _remove_dir_recurisive for the entry: a directory is
\* entered, everything else goes to remove_file.
RemoveItem ==
    /\ ft_last # <<>>
    /\ ft_last[1].call = "none"
    /\ ft_last' = <<[ft_last[1] EXCEPT !.call =
                       IF FileType_is_dir(ft_last[1].file_type)
                       THEN "_remove_dir_recurisive" ELSE "remove_file"]>>
    /\ UNCHANGED ft_entry
    /\ UNCHANGED notType

(***************************************************************************)
(* The specifications.  Each initial predicate fixes every variable: those *)
(* of its own machine as the program starts, the others at idle values.    *)
(***************************************************************************)
InitSyscall ==
    /\ ret_val \in RawWords
    /\ sc_result = <<>>
    /\ fdtable = <<>> /\ objs = <<>> /\ nextInst = 1 /\ closes = <<>>
    /\ kdir = <<>> /\ kpos = 0 /\ kremoved = FALSE /\ entries = <<>>
    /\ cursorEnd = 0 /\ numRead = 0 /\ returned = <<>> /\ lastRet = "start"
    /\ eofSeen = FALSE /\ dirModified = FALSE /\ fillFailed = FALSE
    /\ fs = <<>> /\ cwd = Root /\ cwd0 = Root /\ path = Root /\ stack = <<>>
    /\ outcome = Idle /\ fsModified = FALSE
    /\ oo = <<>> /\ oo_result = "idle" /\ kflags = <<>> /\ kfile = "absent"
    /\ dv_major = {} /\ dv_minor = {} /\ dv_dev = <<>> /\ dv_dec = <<>>
    /\ pcall = <<>> /\ kwords = <<>> /\ pres = <<>>
    /\ rw_file = <<>> /\ rw_fds = <<>> /\ rw_mods = <<>> /\ rw_last = NoOp /\ rw_n = 0
    /\ ktimes = <<>> /\ mt_last = <<>>
    /\ mk_made = <<>> /\ mk_env = <<>>
    /\ ft_entry = <<>> /\ ft_last = <<>>

NextSyscall == SyscallReturn

SpecSyscall == InitSyscall /\ [][NextSyscall]_vars

\* No descriptor is open and the program holds no File.
InitFile ==
    /\ fdtable = [n \in FdNums |-> 0]
    /\ objs = [o \in ObjIds |-> FreeObj]
    /\ nextInst = 1
    /\ closes = [i \in Insts |-> 0]
    /\ ret_val = 0 /\ sc_result = <<>>
    /\ kdir = <<>> /\ kpos = 0 /\ kremoved = FALSE /\ entries = <<>>
    /\ cursorEnd = 0 /\ numRead = 0 /\ returned = <<>> /\ lastRet = "start"
    /\ eofSeen = FALSE /\ dirModified = FALSE /\ fillFailed = FALSE
    /\ fs = <<>> /\ cwd = Root /\ cwd0 = Root /\ path = Root /\ stack = <<>>
    /\ outcome = Idle /\ fsModified = FALSE
    /\ oo = <<>> /\ oo_result = "idle" /\ kflags = <<>> /\ kfile = "absent"
    /\ dv_major = {} /\ dv_minor = {} /\ dv_dev = <<>> /\ dv_dec = <<>>
    /\ pcall = <<>> /\ kwords = <<>> /\ pres = <<>>
    /\ rw_file = <<>> /\ rw_fds = <<>> /\ rw_mods = <<>> /\ rw_last = NoOp /\ rw_n = 0
    /\ ktimes = <<>> /\ mt_last = <<>>
    /\ mk_made = <<>> /\ mk_env = <<>>
    /\ ft_entry = <<>> /\ ft_last = <<>>

NextFile ==
    \/ \E o \in ObjIds : FileOpen(o)
    \/ \E o, o2 \in ObjIds : FileTryClone(o, o2)
    \/ \E o \in ObjIds : FileIntoOwnedFd(o)
    \/ \E o \in ObjIds : FileFromOwnedFd(o)
    \/ \E o \in ObjIds : FileIntoRawFd(o)
    \/ \E o \in ObjIds : FileFromRawFd(o)
    \/ \E o \in ObjIds : FileDrop(o)

SpecFile == InitFile /\ [][NextFile]_vars

\* Dir::opendir has returned: a directory holding "." and "..", and some names,
\* in the kernel's order; nothing read yet.
InitDir ==
    /\ \E S \in SUBSET DirNames : kdir \in Orders(S \cup DotNames)
    /\ kpos = 0
    /\ kremoved = FALSE
    /\ entries = <<>>
    /\ cursorEnd = 0
    /\ numRead = 0
    /\ returned = <<>>
    /\ lastRet = "start"
    /\ eofSeen = FALSE
    /\ dirModified = FALSE
    /\ fillFailed = FALSE
    /\ ret_val = 0 /\ sc_result = <<>>
    /\ fdtable = <<>> /\ objs = <<>> /\ nextInst = 1 /\ closes = <<>>
    /\ fs = <<>> /\ cwd = Root /\ cwd0 = Root /\ path = Root /\ stack = <<>>
    /\ outcome = Idle /\ fsModified = FALSE
    /\ oo = <<>> /\ oo_result = "idle" /\ kflags = <<>> /\ kfile = "absent"
    /\ dv_major = {} /\ dv_minor = {} /\ dv_dev = <<>> /\ dv_dec = <<>>
    /\ pcall = <<>> /\ kwords = <<>> /\ pres = <<>>
    /\ rw_file = <<>> /\ rw_fds = <<>> /\ rw_mods = <<>> /\ rw_last = NoOp /\ rw_n = 0
    /\ ktimes = <<>> /\ mt_last = <<>>
    /\ mk_made = <<>> /\ mk_env = <<>>
    /\ ft_entry = <<>> /\ ft_last = <<>>

NextDir ==
    \/ ReaddirQueued
    \/ ReaddirFill
    \/ ReaddirFillErr
    \/ EnvCreate
    \/ EnvRmdir

SpecDir == InitDir /\ [][NextDir]_vars

\* A file system, a working directory in it and the argument of the call.
InitPath ==
    /\ fs \in FileSystems
    /\ cwd \in WorkDirs(fs)
    /\ cwd0 = cwd
    /\ path \in ArgPaths
    /\ stack = <<>>
    /\ outcome = Idle
    /\ fsModified = FALSE
    /\ oo = <<>> /\ oo_result = "idle" /\ kflags = <<>> /\ kfile = "absent"
    /\ dv_major = {} /\ dv_minor = {} /\ dv_dev = <<>> /\ dv_dec = <<>>
    /\ pcall = <<>> /\ kwords = <<>> /\ pres = <<>>
    /\ rw_file = <<>> /\ rw_fds = <<>> /\ rw_mods = <<>> /\ rw_last = NoOp /\ rw_n = 0
    /\ ktimes = <<>> /\ mt_last = <<>>
    /\ mk_made = <<>> /\ mk_env = <<>>
    /\ ft_entry = <<>> /\ ft_last = <<>>
    /\ ret_val = 0 /\ sc_result = <<>>
    /\ fdtable = <<>> /\ objs = <<>> /\ nextInst = 1 /\ closes = <<>>
    /\ kdir = <<>> /\ kpos = 0 /\ kremoved = FALSE /\ entries = <<>>
    /\ cursorEnd = 0 /\ numRead = 0 /\ returned = <<>> /\ lastRet = "start"
    /\ eofSeen = FALSE /\ dirModified = FALSE /\ fillFailed = FALSE

NextRealpath ==
    \/ Call
    \/ Consume
    \/ FollowLink
    \/ Return
    \/ EnvUnlink

SpecRealpath == InitPath /\ [][NextRealpath]_vars

\* realpath while another thread may change the working directory.
NextChdir ==
    \/ Call
    \/ Consume
    \/ FollowLink
    \/ Return
    \/ EnvChdir

SpecChdir == InitPath /\ [][NextChdir]_vars

NextCanon == Canonicalize

SpecCanon == InitPath /\ [][NextCanon]_vars

\* A fresh OpenOptions and a path at which a file may exist, empty or not.
InitOpen ==
    /\ oo = OpenOptions_new
    /\ oo_result = "idle"
    /\ kflags = <<>>
    /\ kfile \in {"absent", "empty", "data"}
    /\ ret_val = 0 /\ sc_result = <<>>
    /\ fdtable = <<>> /\ objs = <<>> /\ nextInst = 1 /\ closes = <<>>
    /\ kdir = <<>> /\ kpos = 0 /\ kremoved = FALSE /\ entries = <<>>
    /\ cursorEnd = 0 /\ numRead = 0 /\ returned = <<>> /\ lastRet = "start"
    /\ eofSeen = FALSE /\ dirModified = FALSE /\ fillFailed = FALSE
    /\ fs = <<>> /\ cwd = Root /\ cwd0 = Root /\ path = Root /\ stack = <<>>
    /\ outcome = Idle /\ fsModified = FALSE
    /\ dv_major = {} /\ dv_minor = {} /\ dv_dev = <<>> /\ dv_dec = <<>>
    /\ pcall = <<>> /\ kwords = <<>> /\ pres = <<>>
    /\ rw_file = <<>> /\ rw_fds = <<>> /\ rw_mods = <<>> /\ rw_last = NoOp /\ rw_n = 0
    /\ ktimes = <<>> /\ mt_last = <<>>
    /\ mk_made = <<>> /\ mk_env = <<>>
    /\ ft_entry = <<>> /\ ft_last = <<>>

NextOpen ==
    \/ OpenOptions_read
    \/ OpenOptions_write
    \/ OpenOptions_append
    \/ OpenOptions_truncate
    \/ OpenOptions_create
    \/ OpenOptions_create_new
    \/ OpenOptions_custom_flags
    \/ OpenOptions_mode
    \/ OpenOptions_open

SpecOpen == InitOpen /\ [][NextOpen]_vars

InitDev ==
    /\ dv_major \in DevWords
    /\ dv_minor \in DevWords
    /\ dv_dev = <<>>
    /\ dv_dec = <<>>
    /\ ret_val = 0 /\ sc_result = <<>>
    /\ fdtable = <<>> /\ objs = <<>> /\ nextInst = 1 /\ closes = <<>>
    /\ kdir = <<>> /\ kpos = 0 /\ kremoved = FALSE /\ entries = <<>>
    /\ cursorEnd = 0 /\ numRead = 0 /\ returned = <<>> /\ lastRet = "start"
    /\ eofSeen = FALSE /\ dirModified = FALSE /\ fillFailed = FALSE
    /\ fs = <<>> /\ cwd = Root /\ cwd0 = Root /\ path = Root /\ stack = <<>>
    /\ outcome = Idle /\ fsModified = FALSE
    /\ oo = <<>> /\ oo_result = "idle" /\ kflags = <<>> /\ kfile = "absent"
    /\ pcall = <<>> /\ kwords = <<>> /\ pres = <<>>
    /\ rw_file = <<>> /\ rw_fds = <<>> /\ rw_mods = <<>> /\ rw_last = NoOp /\ rw_n = 0
    /\ ktimes = <<>> /\ mt_last = <<>>
    /\ mk_made = <<>> /\ mk_env = <<>>
    /\ ft_entry = <<>> /\ ft_last = <<>>

NextDev == Makedev \/ StatDev \/ Decode

SpecDev == InitDev /\ [][NextDev]_vars

InitPrim ==
    /\ pcall = <<>>
    /\ kwords = <<>>
    /\ pres = <<>>
    /\ ret_val = 0 /\ sc_result = <<>>
    /\ fdtable = <<>> /\ objs = <<>> /\ nextInst = 1 /\ closes = <<>>
    /\ kdir = <<>> /\ kpos = 0 /\ kremoved = FALSE /\ entries = <<>>
    /\ cursorEnd = 0 /\ numRead = 0 /\ returned = <<>> /\ lastRet = "start"
    /\ eofSeen = FALSE /\ dirModified = FALSE /\ fillFailed = FALSE
    /\ fs = <<>> /\ cwd = Root /\ cwd0 = Root /\ path = Root /\ stack = <<>>
    /\ outcome = Idle /\ fsModified = FALSE
    /\ oo = <<>> /\ oo_result = "idle" /\ kflags = <<>> /\ kfile = "absent"
    /\ dv_major = {} /\ dv_minor = {} /\ dv_dev = <<>> /\ dv_dec = <<>>
    /\ rw_file = <<>> /\ rw_fds = <<>> /\ rw_mods = <<>> /\ rw_last = NoOp /\ rw_n = 0
    /\ ktimes = <<>> /\ mt_last = <<>>
    /\ mk_made = <<>> /\ mk_env = <<>>
    /\ ft_entry = <<>> /\ ft_last = <<>>

NextPrim == RawCall \/ WrapperCall

SpecPrim == InitPrim /\ [][NextPrim]_vars

InitRW ==
    /\ rw_file = <<>>
    /\ rw_fds = <<>>
    /\ rw_mods = <<>>
    /\ rw_last = NoOp
    /\ rw_n = 0
    /\ ret_val = 0 /\ sc_result = <<>>
    /\ fdtable = <<>> /\ objs = <<>> /\ nextInst = 1 /\ closes = <<>>
    /\ kdir = <<>> /\ kpos = 0 /\ kremoved = FALSE /\ entries = <<>>
    /\ cursorEnd = 0 /\ numRead = 0 /\ returned = <<>> /\ lastRet = "start"
    /\ eofSeen = FALSE /\ dirModified = FALSE /\ fillFailed = FALSE
    /\ fs = <<>> /\ cwd = Root /\ cwd0 = Root /\ path = Root /\ stack = <<>>
    /\ outcome = Idle /\ fsModified = FALSE
    /\ oo = <<>> /\ oo_result = "idle" /\ kflags = <<>> /\ kfile = "absent"
    /\ dv_major = {} /\ dv_minor = {} /\ dv_dev = <<>> /\ dv_dec = <<>>
    /\ pcall = <<>> /\ kwords = <<>> /\ pres = <<>>
    /\ ktimes = <<>> /\ mt_last = <<>>
    /\ mk_made = <<>> /\ mk_env = <<>>
    /\ ft_entry = <<>> /\ ft_last = <<>>

NextRW == RwCreat \/ RwOpen \/ RwWrite \/ RwRead \/ RwSeek

SpecRW == InitRW /\ [][NextRW]_vars

\* The file holds any content and one descriptor is open on it, in any access
\* mode, with or without O_APPEND, at the start or at the end of the file:
\* what open and write can bring about.
InitPos ==
    /\ \E content \in {<<>>} \cup Buffers(MaxFileLen) :
         /\ rw_file = <<content>>
         /\ rw_mods = IF content = <<>> THEN <<>>
                      ELSE Changed(Changed(<<>>, "more", <<>>, 0, POk(0)),
                                   "more", <<>>, 0, POk(0))
    /\ \E acc \in {O_RDONLY, O_WRONLY, O_RDWR}, append \in BOOLEAN,
          off \in {0, Len(rw_file[1])} :
         rw_fds = <<[acc |-> acc, append |-> append, off |-> off]>>
    /\ rw_last = NoOp
    /\ rw_n = 0
    /\ ret_val = 0 /\ sc_result = <<>>
    /\ fdtable = <<>> /\ objs = <<>> /\ nextInst = 1 /\ closes = <<>>
    /\ kdir = <<>> /\ kpos = 0 /\ kremoved = FALSE /\ entries = <<>>
    /\ cursorEnd = 0 /\ numRead = 0 /\ returned = <<>> /\ lastRet = "start"
    /\ eofSeen = FALSE /\ dirModified = FALSE /\ fillFailed = FALSE
    /\ fs = <<>> /\ cwd = Root /\ cwd0 = Root /\ path = Root /\ stack = <<>>
    /\ outcome = Idle /\ fsModified = FALSE
    /\ oo = <<>> /\ oo_result = "idle" /\ kflags = <<>> /\ kfile = "absent"
    /\ dv_major = {} /\ dv_minor = {} /\ dv_dev = <<>> /\ dv_dec = <<>>
    /\ pcall = <<>> /\ kwords = <<>> /\ pres = <<>>
    /\ ktimes = <<>> /\ mt_last = <<>>
    /\ mk_made = <<>> /\ mk_env = <<>>
    /\ ft_entry = <<>> /\ ft_last = <<>>

NextPos == RwPwrite \/ RwPread

SpecPos == InitPos /\ [][NextPos]_vars

InitMeta ==
    /\ \E a \in Times, b \in Times, c \in Times, m \in Times :
         ktimes = <<[atime |-> a, btime |-> b, ctime |-> c, mtime |-> m]>>
    /\ mt_last = <<>>
    /\ mk_made = <<>> /\ mk_env = <<>>
    /\ ft_entry = <<>> /\ ft_last = <<>>
    /\ ret_val = 0 /\ sc_result = <<>>
    /\ fdtable = <<>> /\ objs = <<>> /\ nextInst = 1 /\ closes = <<>>
    /\ kdir = <<>> /\ kpos = 0 /\ kremoved = FALSE /\ entries = <<>>
    /\ cursorEnd = 0 /\ numRead = 0 /\ returned = <<>> /\ lastRet = "start"
    /\ eofSeen = FALSE /\ dirModified = FALSE /\ fillFailed = FALSE
    /\ fs = <<>> /\ cwd = Root /\ cwd0 = Root /\ path = Root /\ stack = <<>>
    /\ outcome = Idle /\ fsModified = FALSE
    /\ oo = <<>> /\ oo_result = "idle" /\ kflags = <<>> /\ kfile = "absent"
    /\ dv_major = {} /\ dv_minor = {} /\ dv_dev = <<>> /\ dv_dec = <<>>
    /\ pcall = <<>> /\ kwords = <<>> /\ pres = <<>>
    /\ rw_file = <<>> /\ rw_fds = <<>> /\ rw_mods = <<>> /\ rw_last = NoOp /\ rw_n = 0

NextMeta == FileCreated \/ FileSetTimes \/ FileSetModified

SpecMeta == InitMeta /\ [][NextMeta]_vars

\* create_dir_all(path) has been called in the working directory "/".
InitMkdir ==
    /\ fs \in MkFileSystems
    /\ path \in MkArgs
    /\ stack = <<Activation(path, "first", None)>>
    /\ cwd = Root /\ cwd0 = Root
    /\ outcome = Idle /\ fsModified = FALSE
    /\ mk_made = <<>> /\ mk_env = <<>>
    /\ ft_entry = <<>> /\ ft_last = <<>>
    /\ ret_val = 0 /\ sc_result = <<>>
    /\ fdtable = <<>> /\ objs = <<>> /\ nextInst = 1 /\ closes = <<>>
    /\ kdir = <<>> /\ kpos = 0 /\ kremoved = FALSE /\ entries = <<>>
    /\ cursorEnd = 0 /\ numRead = 0 /\ returned = <<>> /\ lastRet = "start"
    /\ eofSeen = FALSE /\ dirModified = FALSE /\ fillFailed = FALSE
    /\ oo = <<>> /\ oo_result = "idle" /\ kflags = <<>> /\ kfile = "absent"
    /\ dv_major = {} /\ dv_minor = {} /\ dv_dev = <<>> /\ dv_dec = <<>>
    /\ pcall = <<>> /\ kwords = <<>> /\ pres = <<>>
    /\ rw_file = <<>> /\ rw_fds = <<>> /\ rw_mods = <<>> /\ rw_last = NoOp /\ rw_n = 0
    /\ ktimes = <<>> /\ mt_last = <<>>

CdaStep == CdaFirst \/ CdaIsDir \/ CdaSecond

NextMkdir == CdaFirst \/ CdaIsDir \/ CdaSecond \/ MkEnvMkdir

SpecMkdir == InitMkdir /\ [][NextMkdir]_vars

\* A record of a directory: any byte as its tag, the name being anything.
InitType ==
    /\ \E t \in TypeTags, n \in FileTypes : ft_entry = <<[d_type |-> t, node |-> n]>>
    /\ ft_last = <<>>
    /\ fs = <<>> /\ cwd = Root /\ cwd0 = Root /\ path = Root /\ stack = <<>>
    /\ outcome = Idle /\ fsModified = FALSE
    /\ mk_made = <<>> /\ mk_env = <<>>
    /\ ret_val = 0 /\ sc_result = <<>>
    /\ fdtable = <<>> /\ objs = <<>> /\ nextInst = 1 /\ closes = <<>>
    /\ kdir = <<>> /\ kpos = 0 /\ kremoved = FALSE /\ entries = <<>>
    /\ cursorEnd = 0 /\ numRead = 0 /\ returned = <<>> /\ lastRet = "start"
    /\ eofSeen = FALSE /\ dirModified = FALSE /\ fillFailed = FALSE
    /\ oo = <<>> /\ oo_result = "idle" /\ kflags = <<>> /\ kfile = "absent"
    /\ dv_major = {} /\ dv_minor = {} /\ dv_dev = <<>> /\ dv_dec = <<>>
    /\ pcall = <<>> /\ kwords = <<>> /\ pres = <<>>
    /\ rw_file = <<>> /\ rw_fds = <<>> /\ rw_mods = <<>> /\ rw_last = NoOp /\ rw_n = 0
    /\ ktimes = <<>> /\ mt_last = <<>>

NextType == DirentFileType \/ RemoveItem

SpecType == InitType /\ [][NextType]_vars

(***************************************************************************)
(* The claims.                                                             *)
(***************************************************************************)

(*------------------------------- C1 --------------------------------------*)
\* C1: syscall_result yields the error number 2^w - r exactly for the raw
\* words r whose signed reading lies in -4095 .. -1, i.e. the top 4095 words;
\* every other word is a success carrying the signed reading of r unchanged.
\* -4095 is the error 4095, -1 the error 1, -4096 and 0 are successes.
C1_ErrorBand ==
    sc_result # <<>> =>
        LET res == sc_result[1]
            inBand == ret_val >= WordMod - 4095 /\ ret_val <= WordMod - 1
        IN  /\ res.ok = ~inBand
            /\ inBand => res.val = WordMod - ret_val /\ res.val \in 1 .. 4095
            /\ ~inBand =>
                 /\ res.val \in (-(WordMod \div 2)) .. (WordMod \div 2 - 1)
                 /\ (res.val - ret_val) % WordMod = 0
            /\ ret_val = WordMod - 4095 => res = ErrVal(4095)
            /\ ret_val = WordMod - 1 => res = ErrVal(1)
            /\ ret_val = WordMod - 4096 => res = OkVal(-4096)
            /\ ret_val = 0 => res = OkVal(0)

\* The word just inside the band has been decoded.
C1_Witness == ret_val = WordMod - 4095 /\ sc_result = <<ErrVal(4095)>>

(*------------------------------- C2 --------------------------------------*)
\* C2: every descriptor is closed at most once, and every value the program
\* holds (a File, an OwnedFd, a raw number handed out by into_raw_fd) names a
\* descriptor that is still open and is its own, so that no two holders share one.
C2_ClosedOnceByOwner ==
    /\ \A i \in Insts : closes[i] <= 1
    /\ \A o \in ObjIds : objs[o].kind # "free" => fdtable[objs[o].fd] = objs[o].inst
    /\ \A o1, o2 \in ObjIds :
         (o1 # o2 /\ objs[o1].kind # "free" /\ objs[o2].kind # "free")
            => objs[o1].fd # objs[o2].fd

(*------------------------------- C3 --------------------------------------*)
\* C3: on a directory nobody modifies, readdir never hands out "." or "..",
\* never hands out a name twice, and when it returns end-of-stream every other
\* name of the directory has been handed out; an empty directory yields
\* end-of-stream on the first call.
C3_EachEntryOnceThenEnd ==
    (~dirModified /\ ~fillFailed) =>
        /\ SeqRange(returned) \cap DotNames = {}
        /\ \A i, j \in 1 .. Len(returned) : i # j => returned[i] # returned[j]
        /\ lastRet = None => SeqRange(returned) = SeqRange(kdir) \ DotNames
        /\ (SeqRange(kdir) \subseteq DotNames /\ lastRet # "start") => lastRet = None

(*------------------------------- C4 --------------------------------------*)
\* C4: once a fill has returned zero bytes and readdir has returned
\* end-of-stream, every later readdir returns end-of-stream.
C4_EndOfStreamAbsorbing == eofSeen => lastRet = None

(*--------------------------- C5 .. C10: realpath -------------------------*)
\* The argument of the call as the kernel reads it: from the working directory.
Anchored(p) == IF p.abs THEN p ELSE MkPath(TRUE, cwd.segs \o p.segs)

\* lstat of the absolute path p finds a symbolic link.
NamesLink(f, p) ==
    LET r == KWalk(f, <<>>, p.segs, FALSE, MaxFollows)
    IN  r.st = "ok" /\ NodeAt(f, r.loc).kind = "link"

\* p is absolute, has no "." and no ".." segment, and none of its prefixes
\* (p included) names a symbolic link.
IsCanonical(f, p) ==
    /\ p.abs
    /\ \A i \in 1 .. Len(p.segs) : p.segs[i] \notin {".", ".."}
    /\ \A k \in 1 .. Len(p.segs) : ~NamesLink(f, MkPath(TRUE, SubSeq(p.segs, 1, k)))

\* C5: whenever realpath returns Ok(p) on a file system nobody modified during
\* the call, p is canonical.
C5_CanonicalResult ==
    (outcome.tag = "Ok" /\ ~fsModified) => IsCanonical(fs, outcome.path)

\* A call whose argument names a symbolic link and holds a ".." has returned Ok.
C5_Witness ==
    /\ outcome.tag = "Ok"
    /\ ~fsModified
    /\ NamesLink(fs, Anchored(path))
    /\ ".." \in SeqRange(path.segs)

\* The directory the kernel reaches by p, when p names a directory.
IsDirPath(f, p) ==
    LET r == KStat(f, cwd, p)
    IN  r.st = "ok" /\ NodeAt(f, r.loc).kind = "dir"
DirOf(f, p) == KStat(f, cwd, p).loc

\* The argument is p/x/.. with x a directory (no link) in the existing directory p.
IsDirThenParent(f, p) ==
    /\ Len(p.segs) >= 2
    /\ p.segs[Len(p.segs)] = ".."
    /\ p.segs[Len(p.segs) - 1] \in Names
    /\ IsDirPath(f, MkPath(p.abs, SubSeq(p.segs, 1, Len(p.segs) - 2)))
    /\ NodeAt(f, Append(DirOf(f, MkPath(p.abs, SubSeq(p.segs, 1, Len(p.segs) - 2))),
                        p.segs[Len(p.segs) - 1])).kind = "dir"

\* C6: ".." replaces the canonical prefix by its parent and does nothing at the
\* root: realpath("/..") = "/", realpath("/../n") = realpath("/n") (which is
\* "/n" unless /n is a symbolic link), and realpath(p/x/..) = realpath(p), the
\* canonical name of p, for a directory x in an existing directory p.
C6_DotDotIsParent ==
    outcome.tag # "Idle" =>
        /\ path = MkPath(TRUE, <<"..">>) => outcome = OkPath(Root)
        /\ \A n \in Names :
             path = MkPath(TRUE, <<"..", n>>) =>
                /\ outcome = realpath(fs, cwd, MkPath(TRUE, <<n>>))
                /\ ~NamesLink(fs, MkPath(TRUE, <<n>>)) => outcome = OkPath(MkPath(TRUE, <<n>>))
        /\ IsDirThenParent(fs, path) =>
             LET p == MkPath(path.abs, SubSeq(path.segs, 1, Len(path.segs) - 2))
             IN  /\ outcome = realpath(fs, cwd, p)
                 /\ outcome = OkPath(MkPath(TRUE, DirOf(fs, p)))

\* realpath(p/x/..) has returned for a directory x two levels down.
C6_Witness ==
    /\ outcome.tag = "Ok"
    /\ IsDirThenParent(fs, path)
    /\ Len(path.segs) = 3
    /\ outcome.path # Root

\* The argument is d/l with l a symbolic link with a relative target in the
\* existing directory d.
IsRelLinkInDir(f, p) ==
    /\ p.segs # <<>>
    /\ p.segs[Len(p.segs)] \in Names
    /\ IsDirPath(f, MkPath(p.abs, Front(p.segs)))
    /\ LET n == NodeAt(f, Append(DirOf(f, MkPath(p.abs, Front(p.segs))), p.segs[Len(p.segs)]))
       IN  n.kind = "link" /\ ~n.target.abs
LinkTargetOf(f, p) ==
    NodeAt(f, Append(DirOf(f, MkPath(p.abs, Front(p.segs))), p.segs[Len(p.segs)])).target

\* C7: for a link l in directory d with the relative target t,
\* realpath(d/l) = realpath(d/t).
C7_RelativeToLinkDir ==
    (outcome.tag # "Idle" /\ IsRelLinkInDir(fs, path)) =>
        outcome = realpath(fs, cwd,
                           MkPath(path.abs, Front(path.segs) \o LinkTargetOf(fs, path).segs))

\* realpath(d/l) has returned Ok for a link whose target d/t is a link again.
C7_Witness ==
    /\ outcome.tag = "Ok"
    /\ IsRelLinkInDir(fs, path)
    /\ NamesLink(fs, Anchored(MkPath(path.abs,
                                     Front(path.segs) \o LinkTargetOf(fs, path).segs)))

(*------------------------------- C8 --------------------------------------*)
\* realpath is about to consume a component while parsed names nothing.
MissingPrefix ==
    /\ stack # <<>>
    /\ Top.pc = "loop"
    /\ Top.remaining # <<>>
    /\ KStat(fs, cwd, Top.parsed).st # "ok"

\* The argument is p/m/rest: m is absent from the existing directory p and is
\* followed by a segment other than "." (so m is not the last component).
HasMissingSegment(f, p) ==
    \E k \in 1 .. (Len(p.segs) - 1) :
        /\ p.segs[k] \in Names
        /\ \E j \in (k + 1) .. Len(p.segs) : p.segs[j] # "."
        /\ IsDirPath(f, MkPath(p.abs, SubSeq(p.segs, 1, k - 1)))
        /\ NodeAt(f, Append(DirOf(f, MkPath(p.abs, SubSeq(p.segs, 1, k - 1))),
                            p.segs[k])).kind = "none"

\* C8 as claimed: whenever a component is about to be consumed and parsed does
\* not name an existing entry, realpath fails with a not-found error.
C8_MissingPrefixIsNotFound ==
    [][(MissingPrefix /\ stack' # stack)
          => (stack' = <<>> /\ outcome' = ErrKind("NotFound"))]_vars

\* C8 as amended: in that situation realpath fails and returns no path, with
\* not-found when the lookup of parsed reports ENOENT and with the lookup's own
\* error (not-a-directory) otherwise; and a path with a segment that is absent
\* from an existing directory and is followed by a segment other than "." fails
\* with not-found.
C8_MissingPrefixFails ==
    /\ [][(MissingPrefix /\ stack' # stack)
            => /\ stack' = <<>>
               /\ outcome' = ErrKind(IF KStat(fs, cwd, Top.parsed).st = "ENOENT"
                                     THEN "NotFound"
                                     ELSE KStat(fs, cwd, Top.parsed).st)]_vars
    /\ []((~fsModified /\ outcome.tag \notin {"Idle", "Running"}
             /\ HasMissingSegment(fs, path))
            => outcome = ErrKind("NotFound"))

\* A call on a path with a missing non-final segment has failed with not-found.
C8_Witness ==
    /\ outcome = ErrKind("NotFound")
    /\ ~fsModified
    /\ HasMissingSegment(fs, path)

(*------------------------------- C9 --------------------------------------*)
\* C9: when parsed was found to be a symbolic link and reading its target then
\* fails, realpath ends with an error returned to its caller.
C9_ReadLinkFailureIsErr ==
    [][(/\ stack # <<>>
        /\ Top.pc = "readlink"
        /\ ReadLink(fs, cwd, Top.parsed).err # None
        /\ stack' # stack)
          => outcome'.tag = "Err"]_vars

(*------------------------------- C10 -------------------------------------*)
\* The lookup of the argument runs into a cycle of symbolic links.
EntersLinkCycle == KStat(fs, cwd, path).st = "ELOOP"

\* C10: on a path whose lookup runs into a cycle of symbolic links, realpath
\* never returns: neither a path nor an error of any kind.
C10_CycleNeverReturns ==
    (~fsModified /\ EntersLinkCycle) => outcome.tag \in {"Idle", "Running"}

\* The activations of such a call fill the stack.
C10_Witness ==
    /\ ~fsModified
    /\ EntersLinkCycle
    /\ Len(stack) = MaxStack
    /\ Top.pc = "readlink"

(*------------------------------- C11 -------------------------------------*)
\* C11: when the working directory changes while realpath runs, the result is
\* the one realpath gives for the working directory read at the entry of the
\* top-level call, whatever the directory is changed to and whenever.
C11_CwdReadOnce ==
    outcome.tag \notin {"Idle", "Running"} => outcome = realpath(fs, cwd0, path)

\* A call on a relative path has returned Ok after the working directory was
\* changed to one from which the path leads elsewhere.
C11_Witness ==
    /\ outcome.tag = "Ok"
    /\ ~path.abs
    /\ cwd # cwd0
    /\ realpath(fs, cwd, path) # outcome

(*--------------------------- C12 .. C16: OpenOptions ---------------------*)
\* Every OpenOptions value that agrees with o on read, write and append.
SameAccessFields(o) ==
    {[o EXCEPT !.truncate = t, !.create = c, !.create_new = n,
               !.custom_flags = x, !.mode = m] :
        t \in BOOLEAN, c \in BOOLEAN, n \in BOOLEAN, x \in CustomFlagValues,
        m \in ModeValues}

\* C12: the access mode is read-only for (T,F,F), write-only for (F,T,F),
\* read-write for (T,T,F), write-only with append for (F,*,T), read-write with
\* append for (T,*,T) and the error EINVAL for (F,F,F); it is defined for all
\* eight combinations and is the same whatever the other fields hold.
C12_AccessModeTable ==
    LET r == oo.read
        w == oo.write
        a == oo.append
        am == get_access_mode(oo)
    IN  /\ (r /\ ~w /\ ~a) => am = [err |-> None, bits |-> {}]
        /\ (~r /\ w /\ ~a) => am = [err |-> None, bits |-> {0}]
        /\ (r /\ w /\ ~a) => am = [err |-> None, bits |-> {1}]
        /\ (~r /\ a) => am = [err |-> None, bits |-> {0, 10}]
        /\ (r /\ a) => am = [err |-> None, bits |-> {1, 10}]
        /\ (~r /\ ~w /\ ~a) => am = [err |-> "EINVAL", bits |-> {}]
        /\ \A o2 \in SameAccessFields(oo) : get_access_mode(o2) = am

\* A file was opened with append alone: write-only with append reached the kernel.
C12_Witness ==
    /\ oo_result = "fd"
    /\ ~oo.read /\ ~oo.write /\ oo.append
    /\ kflags # <<>>
    /\ kflags[1] \cap {0, 1, 10} = {0, 10}

\* The combinations C13 names invalid.
InvalidCreation(o) ==
    \/ ~o.write /\ ~o.append /\ (o.truncate \/ o.create \/ o.create_new)
    \/ o.append /\ o.truncate /\ ~o.create_new

\* C13: the creation mode is the error EINVAL exactly for the invalid
\* combinations; otherwise it is no flag for nothing set, O_CREAT for create
\* only, O_TRUNC for truncate only, O_CREAT|O_TRUNC for both, and O_CREAT|O_EXCL
\* whenever create_new is set.
C13_CreationModeTable ==
    LET c == oo.create
        t == oo.truncate
        n == oo.create_new
        cm == get_creation_mode(oo)
    IN  /\ InvalidCreation(oo) <=> cm.err = "EINVAL"
        /\ cm.err \in {None, "EINVAL"}
        /\ ~InvalidCreation(oo) =>
             /\ (~c /\ ~t /\ ~n) => cm.bits = {}
             /\ (c /\ ~t /\ ~n) => cm.bits = {6}
             /\ (~c /\ t /\ ~n) => cm.bits = {9}
             /\ (c /\ t /\ ~n) => cm.bits = {6, 9}
             /\ n => cm.bits = {6, 7}

\* A file was opened with append, truncate and create_new: exclusive creation
\* reached the kernel, truncate did not.
C13_Witness ==
    /\ oo_result = "fd"
    /\ oo.append /\ oo.truncate /\ oo.create_new
    /\ kflags # <<>>
    /\ kflags[1] \cap {6, 7, 9} = {6, 7}

\* The resolver rejects the intent.
Rejected(o) == (~o.read /\ ~o.write /\ ~o.append) \/ InvalidCreation(o)

\* C14: open on a rejected intent returns EINVAL, hands nothing to the open
\* primitive and leaves the file as it was.
C14_RejectedLeavesFileAlone ==
    [][(oo_result = "idle" /\ oo_result' # "idle" /\ Rejected(oo))
          => (oo_result' = "EINVAL" /\ kflags' = kflags /\ kfile' = kfile)]_vars

\* open was refused for append with truncate on a file holding data.
C14_Witness ==
    /\ oo_result = "EINVAL"
    /\ oo.append /\ oo.truncate /\ ~oo.create_new
    /\ kfile = "data"
    /\ kflags = <<>>

\* C15: for every valid intent and every value of custom_flags, open hands
\* exactly access mode | creation mode | O_CLOEXEC | (custom_flags & ~O_ACCMODE)
\* to the open primitive.
C15_AllExtraFlagsReachKernel ==
    (oo_result # "idle" /\ ~Rejected(oo)) =>
        kflags = <<get_access_mode(oo).bits \cup get_creation_mode(oo).bits
                   \cup {19} \cup (oo.custom_flags \ {0, 1})>>

\* C16: whenever open reaches the open primitive, the access-mode bits of the
\* flags it hands over are those of the access mode computed from read, write
\* and append.
C16_AccessModeNotOverridden ==
    kflags # <<>> =>
        /\ Len(kflags) = 1
        /\ kflags[1] \cap {0, 1} = get_access_mode(oo).bits \cap {0, 1}
        /\ kflags[1] \cap {0, 1} =
             (IF oo.read /\ (oo.write \/ oo.append) THEN {1}
              ELSE IF oo.read THEN {} ELSE {0})

\* A read-only open reached the kernel although custom_flags held O_RDWR.
C16_Witness ==
    /\ kflags # <<>>
    /\ oo.read /\ ~oo.write /\ ~oo.append
    /\ 1 \in oo.custom_flags
    /\ kflags[1] \cap {0, 1} = {}


(*------------------------------- C17 -------------------------------------*)
\* C17: splitting a device id that makedev packed gives back the major and
\* the minor number it was packed from, whatever their 32 bits are.
C17_RoundTrip ==
    (dv_dec # <<>> /\ dv_dev[1].by = "makedev") =>
        /\ dv_dec[1] = dv_major
        /\ dv_dec[2] = dv_minor
        /\ major(makedev(dv_major, dv_minor)) = dv_major
        /\ minor(makedev(dv_major, dv_minor)) = dv_minor

\* A pair with bits in both extensions (major above bit 11, minor above bit
\* 7) went through makedev and back.
C17_Witness ==
    /\ dv_dec # <<>>
    /\ dv_dev[1].by = "makedev"
    /\ dv_major \cap (12 .. 31) # {}
    /\ dv_minor \cap (8 .. 31) # {}
    /\ dv_dec = <<dv_major, dv_minor>>

(*------------------------------- C18 -------------------------------------*)
\* C18, as stated: in the packed device id the major number occupies bits
\* 8-19 and 32-63, the minor number bits 0-7 and 20-31; makedev writes and
\* major and minor read exactly these positions.
C18_LayoutAsStated ==
    /\ (dv_dev # <<>> /\ dv_dev[1].by = "makedev") =>
         /\ makedev(dv_major, {}) = dv_dev[1].dev \cap ((8 .. 19) \cup (32 .. 63))
         /\ makedev({}, dv_minor) = dv_dev[1].dev \cap ((0 .. 7) \cup (20 .. 31))
    /\ dv_dec # <<>> =>
         /\ dv_dec[1] = major(dv_dev[1].dev \cap ((8 .. 19) \cup (32 .. 63)))
         /\ dv_dec[2] = minor(dv_dev[1].dev \cap ((0 .. 7) \cup (20 .. 31)))

\* C18, as the code has it: the major number occupies bits 8-19 (its low 12
\* bits) and 44-63 (its high 20 bits), the minor number bits 0-7 (its low 8
\* bits) and 20-43 (its high 24 bits).  makedev writes each number into its
\* own positions and nowhere else, and major and minor read their own
\* positions and no others.
C18_Layout ==
    /\ (dv_dev # <<>> /\ dv_dev[1].by = "makedev") =>
         /\ dv_dev[1].dev \cap ((8 .. 19) \cup (44 .. 63)) =
              {i + 8 : i \in dv_major \cap (0 .. 11)}
              \cup {i + 32 : i \in dv_major \cap (12 .. 31)}
         /\ dv_dev[1].dev \cap ((0 .. 7) \cup (20 .. 43)) =
              (dv_minor \cap (0 .. 7))
              \cup {i + 12 : i \in dv_minor \cap (8 .. 31)}
    /\ dv_dec # <<>> =>
         /\ dv_dec[1] =
              {i - 8 : i \in dv_dev[1].dev \cap (8 .. 19)}
              \cup {i - 32 : i \in dv_dev[1].dev \cap (44 .. 63)}
         /\ dv_dec[2] =
              (dv_dev[1].dev \cap (0 .. 7))
              \cup {i - 12 : i \in dv_dev[1].dev \cap (20 .. 43)}

\* A device id from the kernel with bit 32 set was split: the bit belongs to
\* the minor number (its bit 20), not to the major number.
C18_Witness ==
    /\ dv_dec # <<>>
    /\ dv_dev[1].by = "kernel"
    /\ 32 \in dv_dev[1].dev
    /\ 20 \in dv_dec[2]
    /\ dv_dec[1] = {}


(*------------------------------- C19 -------------------------------------*)
\* The kernel answered with a word of the error band.
KernelFailed(r) == r >= WordMod - MAX_ERRNO /\ r <= WordMod - 1

\* C19, as stated: every call of a primitive, in either layer, with paths
\* free of zero bytes, makes exactly one kernel invocation and, when the
\* invocation fails, returns the kernel's error number unchanged.
C19_AlwaysOneInvocation ==
    (pcall # <<>> /\ ~pcall[1].nul) =>
        /\ Len(kwords) = 1
        /\ KernelFailed(kwords[1]) =>
             /\ pres[1].tag = "Err"
             /\ pres[1].err.repr \in {"c_int", "Os"}
             /\ pres[1].err.code = WordMod - kwords[1]

\* C19, as the code has it: the ftruncate wrapper handed a length above the
\* largest off_t returns an InvalidInput error without any kernel invocation;
\* every other call with paths free of zero bytes makes exactly one kernel
\* invocation, whatever the kernel answers (EINTR included), returns Ok when
\* the answer lies outside the error band and otherwise the error number of
\* the answer: as a c_int from the raw binding, as an io::Error made from
\* that very number from the wrapper.
C19_ErrnoPassedThrough ==
    (pcall # <<>> /\ ~pcall[1].nul) =>
        LET c == pcall[1]
            unfit == c.layer = "wrapper" /\ c.prim = "ftruncate"
                     /\ ~FitsOffT(c.length)
        IN  /\ unfit => kwords = <<>> /\ pres[1] = PErr(InvalidInput)
            /\ ~unfit =>
                 /\ Len(kwords) = 1
                 /\ KernelFailed(kwords[1]) =>
                      /\ pres[1].tag = "Err"
                      /\ pres[1].err.repr =
                           (IF c.layer = "raw" THEN "c_int" ELSE "Os")
                      /\ pres[1].err.code = WordMod - kwords[1]
                 /\ ~KernelFailed(kwords[1]) => pres[1].tag = "Ok"

\* The unlink wrapper was interrupted: its one invocation returned -EINTR and
\* the caller got the error number 4.
C19_Witness ==
    /\ pcall # <<>>
    /\ pcall[1].layer = "wrapper"
    /\ pcall[1].prim = "unlink"
    /\ kwords = <<WordMod - 4>>
    /\ pres[1] = PErr(from_raw_os_error(4))


(*------------------------------- C20 -------------------------------------*)
\* C20: when the only change to the file since it was created is one
\* successful write call with the non-empty buffer b at its start, a read of
\* Len(b) bytes through a descriptor that is open for reading and whose
\* offset is 0 returns Len(b) and leaves exactly b in the buffer.
C20_WriteReadRoundTrip ==
    [][\A d \in 1 .. Len(rw_fds) :
         (/\ rw_n' = rw_n + 1
          /\ rw_last'.op = "read"
          /\ rw_last'.fd = d
          /\ Readable(rw_fds[d])
          /\ rw_fds[d].off = 0
          /\ Len(rw_mods) = 1
          /\ rw_mods[1].op = "write"
          /\ rw_mods[1].at = 0
          /\ rw_last'.count = Len(rw_mods[1].buf))
         => /\ rw_last'.ret = POk(Len(rw_mods[1].buf))
            /\ rw_last'.buf = rw_mods[1].buf]_vars

\* The file was created by creat, a buffer of MaxBuf bytes was written
\* through a second, write-only descriptor, and the descriptor creat
\* returned read the bytes back from offset 0.
C20_Witness ==
    /\ rw_last.op = "read"
    /\ rw_last.fd = 1
    /\ Len(rw_fds) = 2
    /\ rw_fds[1].acc = O_RDONLY
    /\ rw_fds[2].acc = O_WRONLY
    /\ Len(rw_mods) = 1
    /\ rw_mods[1].op = "write"
    /\ rw_mods[1].at = 0
    /\ Len(rw_mods[1].buf) = MaxBuf
    /\ rw_mods[1].buf[1] # rw_mods[1].buf[2]
    /\ rw_last.count = MaxBuf
    /\ rw_last.ret = POk(MaxBuf)
    /\ rw_last.buf = rw_mods[1].buf
    /\ rw_fds[1].off = MaxBuf
    /\ rw_file = <<rw_mods[1].buf>>


(*------------------------------- C21 -------------------------------------*)
\* new is old with exactly the bytes at [k, k + Len(buf)) replaced by buf; a
\* gap between the end of old and k holds zero bytes.
ReplacedAt(old, new, k, buf) ==
    /\ Len(new) = (IF k + Len(buf) > Len(old) THEN k + Len(buf) ELSE Len(old))
    /\ \A i \in 1 .. Len(new) :
         new[i] = (IF i > k /\ i <= k + Len(buf) THEN buf[i - k]
                   ELSE IF i <= Len(old) THEN old[i] ELSE 0)

\* res and buf are what a read of n bytes at [k, k + n) of content gives.
IsBytesAt(content, k, n, res, buf) ==
    LET have == IF k >= Len(content) THEN 0
                ELSE IF k + n > Len(content) THEN Len(content) - k ELSE n
    IN  /\ res = POk(have)
        /\ \A i \in 1 .. have : buf[i] = content[k + i]

\* A successful pread step.
PreadStep ==
    rw_n' = rw_n + 1 /\ rw_last'.op = "pread" /\ rw_last'.ret.tag = "Ok"

\* A successful pwrite step.
PwriteStep ==
    rw_n' = rw_n + 1 /\ rw_last'.op = "pwrite" /\ rw_last'.ret.tag = "Ok"

\* C21, as stated: every successful pwrite(buf, k) replaces only the bytes at
\* [k, k + Len(buf)), every successful pread(n, k) returns the bytes at
\* [k, k + n), and neither depends on or moves the descriptor's offset.
C21_PositionedEverywhere ==
    [][/\ PwriteStep =>
            /\ ReplacedAt(rw_file[1], rw_file'[1], rw_last'.at, rw_last'.buf)
            /\ rw_fds' = rw_fds
       /\ PreadStep =>
            /\ IsBytesAt(rw_file[1], rw_last'.at, rw_last'.count,
                         rw_last'.ret, rw_last'.buf)
            /\ rw_fds' = rw_fds /\ rw_file' = rw_file]_vars

\* C21, as the code on Linux has it: a successful pwrite(buf, k) through a
\* descriptor that was not opened with O_APPEND replaces only the bytes at
\* [k, k + Len(buf)); through a descriptor opened with O_APPEND it puts buf
\* at the end of the file, whatever k is.  A successful pread(n, k) returns
\* the bytes at [k, k + n).  Neither depends on or moves the offset of any
\* descriptor, and both return the number of bytes transferred.
C21_PositionedIndependent ==
    [][/\ PwriteStep =>
            /\ ReplacedAt(rw_file[1], rw_file'[1],
                          IF rw_fds[rw_last'.fd].append THEN Len(rw_file[1])
                          ELSE rw_last'.at,
                          rw_last'.buf)
            /\ rw_last'.ret = POk(Len(rw_last'.buf))
            /\ rw_fds' = rw_fds
       /\ PreadStep =>
            /\ IsBytesAt(rw_file[1], rw_last'.at, rw_last'.count,
                         rw_last'.ret, rw_last'.buf)
            /\ rw_fds' = rw_fds /\ rw_file' = rw_file]_vars

\* The test in small: the file held two bytes and the descriptor stood at
\* offset 2 when pwrite put a different byte at offset 1; the file still has
\* two bytes, the second is the new one, and the descriptor still stands at
\* offset 2.
C21_Witness ==
    /\ rw_last.op = "pwrite"
    /\ rw_last.at = 1
    /\ rw_last.ret = POk(1)
    /\ Len(rw_file[1]) = 2
    /\ rw_file[1][2] = rw_last.buf[1]
    /\ rw_file[1][1] # rw_file[1][2]
    /\ ~rw_fds[1].append
    /\ rw_fds[1].off = 2


(*------------------------------- C22 -------------------------------------*)
\* C22: Metadata::created returns the birth time (btime) of the statx
\* record, also when it differs from the status-change time (ctime).
C22_CreatedIsBirthTime ==
    (mt_last # <<>> /\ mt_last[1].op = "created") =>
        mt_last[1].ret = [tag |-> "Ok", val |-> ktimes[1].btime]

(*------------------------------- C23 -------------------------------------*)
\* C23: File::set_modified(t) sets the modification time of the file to t
\* and leaves its access time as it was.
C23_SetModifiedKeepsAccessTime ==
    [][(mt_last' # <<>> /\ mt_last'[1].op = "set_modified") =>
          /\ ktimes'[1].mtime = mt_last'[1].arg[1]
          /\ ktimes'[1].atime = ktimes[1].atime]_vars

(*------------------------------- C24 -------------------------------------*)
\* C24: readdir returns end-of-stream only when the fill it issued returned
\* zero bytes; after a fill that held a record it never returns None, also when
\* every record of the fill was "." or "..".
C24_NoneOnlyAfterZeroFill == lastRet = None => numRead = 0

(*------------------------------- C25 -------------------------------------*)
\* The names of a sequence of queued entries.
QueuedNames(queue) == [i \in 1 .. Len(queue) |-> queue[i].name]

NotDot(name) == name \notin DotNames

\* C25: one drain of a fill stops with the cursor equal to the byte count of
\* the fill; the names handed out so far followed by the queued ones are the
\* names other than "." and ".." of all records filled so far, each once and in
\* buffer order; and a fill is issued only when the queue is empty.
C25_DrainInOrder ==
    [][/\ numRead' # 0 => cursorEnd' = numRead'
       /\ returned' \o QueuedNames(entries') = SelectSeq(SubSeq(kdir', 1, kpos'), NotDot)
       /\ (kpos' # kpos \/ numRead' # numRead) => entries = <<>>]_vars

\* A fill of three records, one of them filtered, has been drained: one entry
\* was handed out and one is still queued.
C25_Witness ==
    /\ kpos = 3
    /\ numRead = SumReclen([i \in 1 .. 3 |-> KRecord(kdir[i])])
    /\ cursorEnd = numRead
    /\ Len(returned) = 1
    /\ Len(entries) = 1
    /\ \E i \in 1 .. 3 : kdir[i] \in DotNames

(*------------------------------- C26 -------------------------------------*)
\* The ancestors of p and p itself: its non-empty prefixes.
PrefixesOf(p) == {MkPath(p.abs, SubSeq(p.segs, 1, k)) : k \in 1 .. Len(p.segs)}

IsProperPrefix(p, q) ==
    /\ p.abs = q.abs
    /\ Len(p.segs) < Len(q.segs)
    /\ p.segs = SubSeq(q.segs, 1, Len(p.segs))

\* Every prefix of p is a directory or missing, with no symbolic link and no
\* other non-directory on the way.
NothingInTheWay(f, p) ==
    \A q \in PrefixesOf(p) :
        LET r == KWalk(f, IF q.abs THEN <<>> ELSE cwd.segs, q.segs, FALSE, 0)
        IN  r.st = "ENOENT" \/ (r.st = "ok" /\ NodeAt(f, r.loc).kind = "dir")

\* A prefix of p names a regular file.
FileInTheWay(f, p) ==
    \E q \in PrefixesOf(p) :
        LET r == KStat(f, cwd, q)
        IN  r.st = "ok" /\ NodeAt(f, r.loc).kind = "file"

C26_Returned ==
    /\ outcome.tag = "Ok" => \A q \in PrefixesOf(path) : IsDir(fs, cwd, q)
    /\ (NothingInTheWay(fs, path) \/ IsDir(fs, cwd, path)) => outcome.tag = "Ok"
    /\ FileInTheWay(fs, path) => outcome.tag = "Err"

\* What one activation of create_dir_all still has to do at most, counted in
\* steps: one for a pending is_dir, two from the second mkdir on, and
\* three more than its parent's activation from the first mkdir on.
StepsLeft(fr) ==
    IF fr.pc = "first" THEN 3 * Len(fr.path.segs) + 2
    ELSE IF fr.pc \in {"wait", "second"} THEN 2
    ELSE 1

RECURSIVE Rank(_)
Rank(stk) == IF stk = <<>> THEN 0 ELSE StepsLeft(Head(stk)) + Rank(Tail(stk))

\* The guards of the steps of the call: one of them can be taken.
CdaCanStep == stack # <<>> /\ Top.pc \in {"first", "isdir", "second"}

\* C26: create_dir_all(p) makes directories only at prefixes of p, an outer one
\* before an inner one; when it returns Ok, p and all its ancestors are
\* directories; it returns Ok whenever nothing but directories (its own, the
\* concurrent actor's or earlier ones) is in the way or p is a directory, and
\* an error when p or an ancestor is a regular file; and every call returns:
\* a call that has not returned can take a step, and each of its steps
\* lowers a rank that is never negative.
C26_CreateDirAll ==
    /\ [](/\ \A i \in 1 .. Len(mk_made) : mk_made[i] \in PrefixesOf(path)
          /\ \A i, j \in 1 .. Len(mk_made) :
                i < j => IsProperPrefix(mk_made[i], mk_made[j])
          /\ outcome # Idle => C26_Returned
          /\ outcome = Idle => CdaCanStep)
    /\ [][CdaStep => Rank(stack') < Rank(stack)]_vars

\* The call a/b/a from nothing: it has made a, the concurrent actor made a/b
\* before the call came to it, and the call made a/b/a and returned Ok.
C26_Witness ==
    /\ path = MkPath(FALSE, <<"a", "b", "a">>)
    /\ mk_made = <<MkPath(FALSE, <<"a">>), path>>
    /\ mk_env = <<<<"a", "b">>>>
    /\ outcome = MkOk

(*------------------------------- C27 -------------------------------------*)
\* No symbolic link of the file system leads back to itself: the lookup of
\* none of them ends in ELOOP.
NoLinkCycle(f) ==
    \A loc \in Locs :
        f[loc].kind = "link" => KStat(f, Root, MkPath(TRUE, loc)).st # "ELOOP"

\* What one activation of realpath still weighs: three for each component left
\* and one for itself, two more before the link is read and one more while the
\* nested call runs.
FrameWeight(fr) ==
    3 * Len(fr.remaining) + 1
      + (IF fr.pc = "readlink" THEN 2 ELSE IF fr.pc = "wait" THEN 1 ELSE 0)

\* The activations weighed by their depth, an outer one 32 times an inner one.
RECURSIVE StackRank(_, _)
StackRank(stk, i) ==
    IF i > Len(stk) THEN 0
    ELSE FrameWeight(stk[i]) * 32 ^ (MaxStack - i) + StackRank(stk, i + 1)

LastIsMissing ==
    /\ path.segs # <<>>
    /\ path.segs[Len(path.segs)] \in Names
    /\ KStat(fs, cwd, Parent(path)).st = "ok"
    /\ NodeAt(fs, KStat(fs, cwd, Parent(path)).loc).kind = "dir"
    /\ KLstat(fs, cwd, path).st = "ENOENT"

\* The argument names a symbolic link whose target is missing.
LastIsDangling ==
    /\ KLstat(fs, cwd, path).st = "ok"
    /\ NodeAt(fs, KLstat(fs, cwd, path).loc).kind = "link"
    /\ KStat(fs, cwd, path).st = "ENOENT"

\* C28: realpath of a path whose last component is missing from an existing
\* directory is Ok: the canonical path of that directory joined with the name;
\* of a dangling symbolic link, Ok: the path of the missing target; of the
\* empty path, Ok: the working directory.
C28_LastComponentUnchecked ==
    outcome # Idle =>
        /\ LastIsMissing =>
             outcome = OkPath(MkPath(TRUE, Append(KStat(fs, cwd, Parent(path)).loc,
                                                  path.segs[Len(path.segs)])))
        /\ LastIsDangling => outcome = OkPath(MkPath(TRUE, KStat(fs, cwd, path).loc))
        /\ path = MkPath(FALSE, <<>>) => outcome = OkPath(cwd)

\* realpath("/../a") with /a absent has returned "/a".
C28_Witness ==
    /\ path = MkPath(TRUE, <<"..", "a">>)
    /\ fs[<<"a">>] = NoNode
    /\ outcome = OkPath(MkPath(TRUE, <<"a">>))

(*------------------------------- C29 -------------------------------------*)
\* The components of the argument, without the "." ones.
PlainSegs == SelectSeq(path.segs, LAMBDA x : x # ".")

\* Where the first k components lead.
PrefixStat(k) == KStat(fs, cwd, MkPath(path.abs, SubSeq(PlainSegs, 1, k)))

\* The first k components name an existing regular file.
FilePrefixAt(k) ==
    /\ k \in 1 .. Len(PlainSegs)
    /\ PrefixStat(k).st = "ok"
    /\ NodeAt(fs, PrefixStat(k).loc).kind = "file"

\* The last component is applied to a regular file f named by the components
\* before it: f/.. is the canonical parent of f, f/x is canonical f joined with x.
AppliedToFile ==
    LET n == Len(PlainSegs)
    IN  FilePrefixAt(n - 1) =>
            outcome = OkPath(MkPath(TRUE,
                         IF PlainSegs[n] = ".." THEN Front(PrefixStat(n - 1).loc)
                         ELSE Append(PrefixStat(n - 1).loc, PlainSegs[n])))

\* C29 as stated: realpath never reports not-a-directory, and f/.. and f/x
\* are Ok for a regular file f.
C29_NeverNotADirectory ==
    outcome # Idle => (outcome.kind # "ENOTDIR" /\ AppliedToFile)

\* C29: for a regular file f, realpath(f/..) is Ok with the canonical parent of
\* f and realpath(f/x) is Ok with canonical f joined with x; with a name and at
\* least one more component after f, realpath fails with not-a-directory.
C29_FileAsComponent ==
    outcome # Idle =>
        /\ AppliedToFile
        /\ \A k \in 1 .. Len(PlainSegs) - 2 :
              (FilePrefixAt(k) /\ PlainSegs[k + 1] \in Names) =>
                  outcome = ErrKind("ENOTDIR")

\* realpath("a/..") in "/" with /a a regular file has returned "/".
C29_Witness ==
    /\ path = MkPath(FALSE, <<"a", "..">>)
    /\ cwd = Root
    /\ fs[<<"a">>] = FileNode
    /\ outcome = OkPath(Root)

(*------------------------------- C30 -------------------------------------*)
\* The tags that have a type of their own other than the symbolic link.
OwnTags == {DT_REG, DT_DIR, DT_SOCK, DT_FIFO, DT_CHR, DT_BLK}

=============================================================================
